---- MODULE Spec2Model ----
(***************************************************************************)
(* Region-to-mask compositor of the storyteller application                *)
(* (src-tauri/src/mask_generator.rs, src-tauri/src/llm_parser.rs) and the  *)
(* mask loop of its caller (src-tauri/src/commands/orchestrator.rs).       *)
(*                                                                         *)
(* Strings are sequences of one-character strings, so that lowercasing,    *)
(* trimming and matching are computed character by character.  f32 values  *)
(* are pairs (mantissa, exponent) with a 24-bit mantissa, and every f32    *)
(* operation rounds to nearest, ties to even, as IEEE 754 binary32 does.   *)
(***************************************************************************)
EXTENDS Integers, Sequences, FiniteSets, TLC

VARIABLES
    img_w,          \* canvas width  (u32)
    img_h,          \* canvas height (u32)
    region,         \* region descriptor handed to region_to_rect
    rect,           \* Option<Rect> returned by region_to_rect
    characters,     \* &[MaskCharacter] handed to generate_mask_buffer
    idx,            \* position of the `for ch in characters` loop (1-based)
    buffer,         \* Vec<u8>, the RGB pixel buffer (1-based here)
    regions_drawn,  \* usize counter of generate_mask_buffer
    mask_result,    \* MaskResult returned by generate_mask, or NoResult
    png,            \* Vec<u8> returned by encode_png
    raw_data,       \* encode_png: the scanline stream
    zlib,           \* encode_png: the zlib container
    sum,            \* locals of the running checksum loop (crc32, adler32)
    pc,             \* position of the running call
    fs,             \* the file system: the output directory and its files
    calls,          \* per thread: the running call of generate_mask
    clock,          \* SystemTime::now(), in milliseconds since the epoch
    log,            \* the calls of generate_mask that have ended, in order
    gens            \* per thread: the running scene image generation

vars == <<img_w, img_h, region, rect, characters, idx, buffer,
          regions_drawn, mask_result, png, raw_data, zlib, sum, pc,
          fs, calls, clock, log, gens>>

\* the variables of the encoder and of the checksum loops
encoderVars == <<png, raw_data, zlib, sum>>

\* the variables of generate_mask's callers and of the file system
fileVars == <<fs, calls, clock, log, gens>>

----------------------------------------------------------------------------
(* Bounds of the model *)

MaxDim == 7
MaxChars == 2

\* Canvas sizes beyond the small range: the sizes of the unit tests, and
\* sizes at which a 24-bit mantissa no longer holds the products exactly.
BigDims == {512, 768, 5991867, 10485762, 10485774, 16777217}

Dims == (0..MaxDim) \cup BigDims

----------------------------------------------------------------------------
(* IEEE 754 binary32 arithmetic on non-negative values *)

RECURSIVE BitLen(_)
BitLen(n) == IF n = 0 THEN 0 ELSE 1 + BitLen(n \div 2)

\* (hi * 2^24 + lo) * 2^e rounded to a 24-bit mantissa, ties to even
RoundToF32(hi, lo, e) ==
    IF hi = 0 THEN [m |-> lo, e |-> e]
    ELSE LET s    == BitLen(hi)
             q    == hi * 2^(24 - s) + (lo \div 2^s)
             r    == lo % 2^s
             half == 2^(s - 1)
             up   == r > half \/ (r = half /\ q % 2 = 1)
             q2   == IF up THEN q + 1 ELSE q
         IN  IF q2 = 2^24 THEN [m |-> 2^23, e |-> e + s + 1]
                          ELSE [m |-> q2, e |-> e + s]

\* `n as f32` for a u32 n
U32AsF32(n) == RoundToF32(n \div 2^24, n % 2^24, 0)

\* a * b in f32: the exact 48-bit product of the mantissas, then one rounding
F32Mul(a, b) ==
    LET B   == 2^12
        a1  == a.m \div B
        a0  == a.m % B
        b1  == b.m \div B
        b0  == b.m % B
        mid == a1 * b0 + a0 * b1
        low == (mid % B) * B + a0 * b0
        hi  == a1 * b1 + (mid \div B) + (low \div 2^24)
        lo  == low % 2^24
    IN  RoundToF32(hi, lo, a.e + b.e)

\* `x as u32` for a non-negative f32 x below 2^31: truncation toward zero
F32AsU32(x) ==
    IF x.e >= 0 THEN x.m * 2^(x.e)
    ELSE IF 0 - x.e >= 24 THEN 0
    ELSE x.m \div 2^(0 - x.e)

\* the f32 literals 0.40, 0.70 and 0.60
F32_0_40 == [m |-> 13421773, e |-> 0 - 25]
F32_0_70 == [m |-> 11744051, e |-> 0 - 24]
F32_0_60 == [m |-> 10066330, e |-> 0 - 24]

\* `(n as f32 * c) as u32`
ScaleF32(n, c) == F32AsU32(F32Mul(U32AsF32(n), c))

----------------------------------------------------------------------------
(* Strings: sequences of one-character strings *)

LowerLetters == <<"a", "b", "c", "d", "e", "f", "g", "h", "i", "j", "k", "l", "m", "n", "o", "p", "q", "r", "s", "t", "u", "v", "w", "x", "y", "z">>
UpperLetters == <<"A", "B", "C", "D", "E", "F", "G", "H", "I", "J", "K", "L", "M", "N", "O", "P", "Q", "R", "S", "T", "U", "V", "W", "X", "Y", "Z">>

LowerChar(c) ==
    IF \E i \in 1..26 : UpperLetters[i] = c
    THEN LowerLetters[CHOOSE i \in 1..26 : UpperLetters[i] = c]
    ELSE c

UpperChar(c) ==
    IF \E i \in 1..26 : LowerLetters[i] = c
    THEN UpperLetters[CHOOSE i \in 1..26 : LowerLetters[i] = c]
    ELSE c

\* str::to_lowercase on the characters the descriptors are written in
to_lowercase(s) == [i \in 1..Len(s) |-> LowerChar(s[i])]

IsWhitespace(c) == c \in {" ", "\t", "\n", "\r"}

RECURSIVE trim_start(_)
trim_start(s) ==
    IF s # <<>> /\ IsWhitespace(Head(s)) THEN trim_start(Tail(s)) ELSE s

RECURSIVE trim_end(_)
trim_end(s) ==
    IF s # <<>> /\ IsWhitespace(s[Len(s)])
    THEN trim_end(SubSeq(s, 1, Len(s) - 1))
    ELSE s

\* str::trim
trim(s) == trim_end(trim_start(s))

W_left       == <<"l", "e", "f", "t">>
W_center     == <<"c", "e", "n", "t", "e", "r">>
W_right      == <<"r", "i", "g", "h", "t">>
W_seated     == <<"s", "e", "a", "t", "e", "d">>
W_background == <<"b", "a", "c", "k", "g", "r", "o", "u", "n", "d">>
W_off        == <<"o", "f", "f">>
W_screen     == <<"s", "c", "r", "e", "e", "n">>
W_centre     == <<"c", "e", "n", "t", "r", "e">>
W_floating   == <<"f", "l", "o", "a", "t", "i", "n", "g">>

Hyphen     == <<"-">>
Underscore == <<"_">>
Space      == <<" ">>
NoSep      == <<>>

----------------------------------------------------------------------------
(* llm_parser.rs: CharacterRegion *)

Variant(v) == [variant |-> v]
Other(s)   == [variant |-> "Other", value |-> s]

\* the three spellings one match arm accepts
Arm(t, first, second) ==
    \/ t = first \o Hyphen \o second
    \/ t = first \o Underscore \o second
    \/ t = first \o second

\* from_str_loose without the to_lowercase call
from_str_loose_CaseSensitive(s) ==
    LET t == trim(s)
    IN  CASE t = W_left   -> Variant("Left")
          [] t = W_center -> Variant("Center")
          [] t = W_right  -> Variant("Right")
          [] Arm(t, W_left, W_seated)       -> Variant("LeftSeated")
          [] Arm(t, W_center, W_seated)     -> Variant("CenterSeated")
          [] Arm(t, W_right, W_seated)      -> Variant("RightSeated")
          [] Arm(t, W_left, W_background)   -> Variant("LeftBackground")
          [] Arm(t, W_center, W_background) -> Variant("CenterBackground")
          [] Arm(t, W_right, W_background)  -> Variant("RightBackground")
          [] Arm(t, W_off, W_screen)        -> Variant("OffScreen")
          [] OTHER -> Other(t)

\* from_str_loose with a fallback arm that places the character in the center
from_str_loose_DefaultCenter(s) ==
    LET t == trim(to_lowercase(s))
    IN  CASE t = W_left   -> Variant("Left")
          [] t = W_right  -> Variant("Right")
          [] Arm(t, W_left, W_seated)       -> Variant("LeftSeated")
          [] Arm(t, W_center, W_seated)     -> Variant("CenterSeated")
          [] Arm(t, W_right, W_seated)      -> Variant("RightSeated")
          [] Arm(t, W_left, W_background)   -> Variant("LeftBackground")
          [] Arm(t, W_center, W_background) -> Variant("CenterBackground")
          [] Arm(t, W_right, W_background)  -> Variant("RightBackground")
          [] Arm(t, W_off, W_screen)        -> Variant("OffScreen")
          [] OTHER -> Variant("Center")

from_str_loose(s) ==
    LET t == trim(to_lowercase(s))
    IN  CASE t = W_left   -> Variant("Left")
          [] t = W_center -> Variant("Center")
          [] t = W_right  -> Variant("Right")
          [] Arm(t, W_left, W_seated)       -> Variant("LeftSeated")
          [] Arm(t, W_center, W_seated)     -> Variant("CenterSeated")
          [] Arm(t, W_right, W_seated)      -> Variant("RightSeated")
          [] Arm(t, W_left, W_background)   -> Variant("LeftBackground")
          [] Arm(t, W_center, W_background) -> Variant("CenterBackground")
          [] Arm(t, W_right, W_background)  -> Variant("RightBackground")
          [] Arm(t, W_off, W_screen)        -> Variant("OffScreen")
          [] OTHER -> Other(t)

----------------------------------------------------------------------------
(* mask_generator.rs: region -> rectangle *)

None    == <<>>
Some(v) == <<v>>
Unwrap(o) == o[1]

Rect(x, y, w, h) == [x |-> x, y |-> y, w |-> w, h |-> h]

LeftColumn   == {"Left", "LeftSeated", "LeftBackground"}
CenterColumn == {"Center", "CenterSeated", "CenterBackground"}
RightColumn  == {"Right", "RightSeated", "RightBackground"}

\* Column with a right column as wide as the other two
Column_NoAbsorb(region_enum, w) ==
    LET third_w == w \div 3
    IN  CASE region_enum.variant \in LeftColumn   -> Some(<<0, third_w>>)
          [] region_enum.variant \in CenterColumn -> Some(<<third_w, third_w>>)
          [] region_enum.variant \in RightColumn  -> Some(<<third_w * 2, third_w>>)
          [] OTHER -> None

\* the first match: Some(<<col_x, col_w>>), or None where the code returns None
Column(region_enum, w) ==
    LET third_w == w \div 3
    IN  CASE region_enum.variant \in LeftColumn   -> Some(<<0, third_w>>)
          [] region_enum.variant \in CenterColumn -> Some(<<third_w, third_w>>)
          [] region_enum.variant \in RightColumn  ->
                 Some(<<third_w * 2, w - third_w * 2>>)
          [] OTHER -> None

\* the arm for the full-height foreground regions
ForegroundRect(col_x, col_w, h) == Some(Rect(col_x, 0, col_w, h))

\* SeatedRect with the full canvas height below the offset
SeatedRect_FullHeight(col_x, col_w, h) ==
    LET top_offset == ScaleF32(h, F32_0_40)
    IN  Some(Rect(col_x, top_offset, col_w, h))

\* the arm for the seated regions: bottom 60% of the column
SeatedRect(col_x, col_w, h) ==
    LET top_offset == ScaleF32(h, F32_0_40)
    IN  Some(Rect(col_x, top_offset, col_w, h - top_offset))

\* the arm for the background regions: top 70%, inner 60%, centered
BackgroundRect(col_x, col_w, h) ==
    LET zone_h  == ScaleF32(h, F32_0_70)
        inner_w == ScaleF32(col_w, F32_0_60)
        inner_h == ScaleF32(zone_h, F32_0_60)
        inner_x == col_x + (col_w - inner_w) \div 2
        inner_y == (zone_h - inner_h) \div 2
    IN  Some(Rect(inner_x, inner_y, inner_w, inner_h))

region_to_rect(r, w, h) ==
    LET region_enum == from_str_loose(r)
        col         == Column(region_enum, w)
    IN  IF col = None THEN None
        ELSE LET col_x == Unwrap(col)[1]
                 col_w == Unwrap(col)[2]
             IN  CASE region_enum.variant \in {"Left", "Center", "Right"} ->
                          ForegroundRect(col_x, col_w, h)
                   [] region_enum.variant \in
                          {"LeftSeated", "CenterSeated", "RightSeated"} ->
                          SeatedRect(col_x, col_w, h)
                   [] region_enum.variant \in
                          {"LeftBackground", "CenterBackground",
                           "RightBackground"} ->
                          BackgroundRect(col_x, col_w, h)
                   [] OTHER -> None

----------------------------------------------------------------------------
(* Region descriptors handed to region_to_rect *)

Desc(first, second) == [first |-> first, second |-> second]

ColumnWords == {W_left, W_center, W_right}

ForegroundDescs == {Desc(c, <<>>) : c \in ColumnWords}
SeatedDescs     == {Desc(c, W_seated) : c \in ColumnWords}
BackgroundDescs == {Desc(c, W_background) : c \in ColumnWords}
OffScreenDesc   == Desc(W_off, W_screen)

DrawableDescs == ForegroundDescs \cup SeatedDescs \cup BackgroundDescs
Descriptors   == DrawableDescs \cup {OffScreenDesc}

CaseStyles == {"lower", "upper", "title"}

ApplyCase(word, style) ==
    CASE style = "upper" -> [i \in 1..Len(word) |-> UpperChar(word[i])]
      [] style = "title" ->
             [i \in 1..Len(word) |-> IF i = 1 THEN UpperChar(word[i]) ELSE word[i]]
      [] OTHER -> word

\* the descriptor d written with separator sep in case style
Spell(d, sep, style) ==
    IF d.second = <<>> THEN ApplyCase(d.first, style)
    ELSE ApplyCase(d.first, style) \o sep \o ApplyCase(d.second, style)

\* the canonical kebab-case spelling (CharacterRegion::as_str)
Canon(d) == Spell(d, Hyphen, "lower")

CodeSeparators == {Hyphen, Underscore, NoSep}
Separators     == CodeSeparators \cup {Space}

LeadPads  == {<<>>, <<" ">>}
TrailPads == {<<>>, <<"\n">>}

\* strings outside the vocabulary
UnknownInputs ==
    { W_floating, W_centre, <<>>, W_seated, W_left \o Hyphen,
      W_left \o Hyphen \o W_center, W_left \o Hyphen \o Hyphen \o W_seated }

SpelledInputs ==
    { lead \o Spell(d, sep, style) \o trail :
        d \in Descriptors, sep \in Separators, style \in CaseStyles,
        lead \in LeadPads, trail \in TrailPads }

RegionInputs == SpelledInputs \cup UnknownInputs

----------------------------------------------------------------------------
(* Specification of the geometry resolver: one call on one canvas *)

NoResult == <<>>

\* no file system, no caller of generate_mask
NoFiles ==
    /\ fs = <<>>
    /\ calls = <<>>
    /\ clock = 0
    /\ log = <<>>
    /\ gens = <<>>
NoSum    == <<>>

InitGeometry ==
    /\ img_w \in Dims
    /\ img_h \in Dims
    /\ region = <<>>
    /\ rect = None
    /\ characters = <<>>
    /\ idx = 1
    /\ buffer = <<>>
    /\ regions_drawn = 0
    /\ mask_result = NoResult
    /\ NoFiles
    /\ png = <<>>
    /\ raw_data = <<>>
    /\ zlib = <<>>
    /\ sum = NoSum
    /\ pc = "idle"

\* a call region_to_rect(s, img_w, img_h)
CallRegionToRect(s) ==
    /\ pc = "idle"
    /\ region' = s
    /\ rect' = region_to_rect(s, img_w, img_h)
    /\ pc' = "resolved"
    /\ UNCHANGED <<img_w, img_h, characters, idx, buffer, regions_drawn,
                   mask_result>>
    /\ UNCHANGED encoderVars
    /\ UNCHANGED fileVars

NextGeometry == \E s \in RegionInputs : CallRegionToRect(s)

Spec == InitGeometry /\ [][NextGeometry]_vars

----------------------------------------------------------------------------
(* Properties of the geometry resolver *)

Resolved == pc = "resolved"

\* the rectangle of the full-height region of column word c on this canvas
ForegroundOf(c) == Unwrap(region_to_rect(c, img_w, img_h))

\* C1: on every canvas the rectangles of "left", "center" and "right" tile
\* the width: left starts at 0, each column starts where the previous one
\* ends, right ends at W, and the three widths add up to W.
C1_ColumnsTileWidth ==
    LET l == ForegroundOf(W_left)
        c == ForegroundOf(W_center)
        r == ForegroundOf(W_right)
    IN  /\ l.x = 0
        /\ l.x + l.w = c.x
        /\ c.x + c.w = r.x
        /\ r.x + r.w = img_w
        /\ l.w + c.w + r.w = img_w
        /\ (Resolved /\ region = W_right => rect = Some(r))

\* "right" resolved on a canvas whose width is not a multiple of 3
C1_Witness ==
    /\ Resolved
    /\ region = W_right
    /\ img_w % 3 = 2
    /\ rect # None
    /\ Unwrap(rect).w = img_w \div 3 + 2

\* C2: every rectangle region_to_rect returns lies inside the canvas.
C2_RectInsideCanvas ==
    Resolved /\ rect # None =>
        /\ Unwrap(rect).x + Unwrap(rect).w <= img_w
        /\ Unwrap(rect).y + Unwrap(rect).h <= img_h

\* a seated rectangle that starts below the top and ends at the bottom edge
C2_Witness ==
    /\ Resolved
    /\ region = Canon(Desc(W_right, W_seated))
    /\ rect # None
    /\ Unwrap(rect).y > 0
    /\ Unwrap(rect).y + Unwrap(rect).h = img_h
    /\ Unwrap(rect).x + Unwrap(rect).w = img_w

\* C3: on a canvas with W >= 1 and H >= 1 no returned rectangle has a zero
\* width or a zero height.
C3_NoZeroDimension ==
    Resolved /\ img_w >= 1 /\ img_h >= 1 /\ rect # None =>
        Unwrap(rect).w > 0 /\ Unwrap(rect).h > 0

\* C4: every case variant and every one of the three separator spellings
\* (hyphen, underscore, none) of a descriptor resolves to the result of the
\* descriptor's canonical spelling.
C4_CaseAndSeparatorInsensitive ==
    Resolved =>
        \A d \in Descriptors, sep \in CodeSeparators, style \in CaseStyles :
            region = Spell(d, sep, style) =>
                rect = region_to_rect(Canon(d), img_w, img_h)

\* "LeftSeated" resolved to the rectangle of "left-seated"
C4_Witness ==
    /\ Resolved
    /\ region = Spell(Desc(W_left, W_seated), NoSep, "title")
    /\ img_w >= 3
    /\ rect # None
    /\ Unwrap(rect).w > 0
    /\ rect = region_to_rect(Canon(Desc(W_left, W_seated)), img_w, img_h)

\* C5: a two-word descriptor written with a space between the words
\* resolves to the same result as its hyphenated spelling.
C5_SpaceSeparator ==
    Resolved =>
        \A d \in Descriptors \ ForegroundDescs, style \in CaseStyles :
            region = Spell(d, Space, style) =>
                rect = region_to_rect(Spell(d, Hyphen, style), img_w, img_h)

\* C6: "off-screen" and every string outside the vocabulary yield no
\* rectangle, each of the nine drawable descriptors yields a rectangle, and
\* the result is always None or a rectangle of unsigned fields.
C6_NoneForOffScreenAndUnknown ==
    Resolved =>
        /\ (region \in UnknownInputs \cup {Canon(OffScreenDesc)} => rect = None)
        /\ \A d \in DrawableDescs : region = Canon(d) => rect # None
        /\ (rect # None =>
               /\ Len(rect) = 1
               /\ DOMAIN Unwrap(rect) = {"x", "y", "w", "h"}
               /\ \A f \in {"x", "y", "w", "h"} : Unwrap(rect)[f] >= 0)

\* "floating" resolved to no rectangle on a canvas with three non-empty columns
C6_Witness ==
    /\ Resolved
    /\ region = W_floating
    /\ img_w >= 3
    /\ img_h >= 3
    /\ rect = None

\* C7: each "-seated" rectangle has the x and width of the foreground
\* rectangle of its column, starts at y = floor(0.40 * H) and ends at the
\* canvas bottom.
C7_SeatedGeometry ==
    Resolved =>
        \A c \in ColumnWords :
            region = Canon(Desc(c, W_seated)) =>
                /\ rect # None
                /\ Unwrap(rect).x = ForegroundOf(c).x
                /\ Unwrap(rect).w = ForegroundOf(c).w
                /\ Unwrap(rect).y = (2 * img_h) \div 5
                /\ Unwrap(rect).y + Unwrap(rect).h = img_h

Abs(n) == IF n < 0 THEN 0 - n ELSE n

\* C8: on a canvas with W >= 1 and H >= 1 each "-background" rectangle is
\* strictly narrower than its column and strictly shorter than the top-70%
\* zone, lies inside column x zone, is floor(0.60 * column width) wide and
\* floor(0.60 * zone height) high, and its opposite margins differ by at
\* most one pixel.
C8_BackgroundGeometry ==
    Resolved /\ img_w >= 1 /\ img_h >= 1 =>
        \A c \in ColumnWords :
            region = Canon(Desc(c, W_background)) =>
                /\ rect # None
                /\ LET r      == Unwrap(rect)
                       col    == ForegroundOf(c)
                       zone_h == (7 * img_h) \div 10
                       left   == r.x - col.x
                       right  == (col.x + col.w) - (r.x + r.w)
                       top    == r.y
                       bottom == zone_h - (r.y + r.h)
                   IN  /\ r.w < col.w
                       /\ r.h < zone_h
                       /\ left >= 0 /\ right >= 0 /\ top >= 0 /\ bottom >= 0
                       /\ r.w = (3 * col.w) \div 5
                       /\ r.h = (3 * zone_h) \div 5
                       /\ Abs(left - right) <= 1
                       /\ Abs(top - bottom) <= 1

----------------------------------------------------------------------------
(* u32 arithmetic.  A u32 is a record of its two 16-bit halves, so that
   values up to 2^32 - 1 and the overflow of a product or a sum can be
   computed.  An overflowing `*` or `+` panics in a build with overflow
   checks (debug) and wraps modulo 2^32 in a build without (release). *)

U32(hi, lo) == [hi |-> hi, lo |-> lo]

\* a number below 2^31 as a u32, and back
ToU32(n) == U32(n \div 65536, n % 65536)
ToInt(x) == x.hi * 65536 + x.lo

\* the four bytes of x, least significant first
Digits(x) == <<x.lo % 256, x.lo \div 256, x.hi % 256, x.hi \div 256>>

\* the sum of the digit products of weight 256^k
DigitColumn(da, db, k) ==
    LET pairs == { i \in 0..3 : k - i \in 0..3 }
        RECURSIVE Sum(_)
        Sum(S) == IF S = {} THEN 0
                  ELSE LET i == CHOOSE i \in S : TRUE
                       IN  da[i + 1] * db[k - i + 1] + Sum(S \ {i})
    IN  Sum(pairs)

\* the digits k..7 of the product, given the carry into digit k
RECURSIVE ProductDigits(_, _, _, _)
ProductDigits(da, db, k, carry) ==
    IF k > 7 THEN <<>>
    ELSE LET t == DigitColumn(da, db, k) + carry
         IN  <<t % 256>> \o ProductDigits(da, db, k + 1, t \div 256)

\* a * b on u32: the value modulo 2^32 and whether the product passed it
mul_u32(a, b) ==
    LET d == ProductDigits(Digits(a), Digits(b), 0, 0)
    IN  [wrapped  |-> U32(d[4] * 256 + d[3], d[2] * 256 + d[1]),
         overflow |-> \E k \in 5..8 : d[k] # 0]

\* a + b on u32
add_u32(a, b) ==
    LET lo == a.lo + b.lo
        hi == a.hi + b.hi + (lo \div 65536)
    IN  [wrapped  |-> U32(hi % 65536, lo % 65536),
         overflow |-> hi >= 65536]

MulOverflows(m, n) == mul_u32(ToU32(m), ToU32(n)).overflow

\* m * n as the code computes it when it does not panic
WrappingMul(m, n) == ToInt(mul_u32(ToU32(m), ToU32(n)).wrapped)

----------------------------------------------------------------------------
(* mask_generator.rs: the raster compositor *)

\* palette, indexed by color_index + 1
MASK_COLORS == << <<255, 0, 0>>, <<0, 0, 255>>, <<0, 255, 0>> >>

\* MaskCharacter; its name only appears in the warning that is printed
MaskCharacter(r, ci) == [region |-> r, color_index |-> ci]

\* fill_rect that leaves pixels alone that were painted before
fill_rect_KeepPainted(buf, img_width, r, color) ==
    LET stride  == WrappingMul(img_width, 3)
        offsets == { row * stride + r.x * 3 + col * 3 :
                        row \in r.y..(r.y + r.h - 1), col \in 0..(r.w - 1) }
        written == { o \in offsets :
                        /\ o + 2 < Len(buf)
                        /\ \A k \in 0..2 : buf[o + k + 1] = 0 }
    IN  [i \in 1..Len(buf) |->
            IF \E k \in 0..2 : (i - 1 - k) \in written
            THEN color[(CHOOSE k \in 0..2 : (i - 1 - k) \in written) + 1]
            ELSE buf[i]]

\* buffer[b] is byte b - 1 of the Vec; offsets are the 0-based byte offsets
\* of the rectangle's pixels, written only where offset + 2 < buffer.len()
fill_rect(buf, img_width, r, color) ==
    LET stride  == WrappingMul(img_width, 3)
        offsets == { row * stride + r.x * 3 + col * 3 :
                        row \in r.y..(r.y + r.h - 1), col \in 0..(r.w - 1) }
        written == { o \in offsets : o + 2 < Len(buf) }
    IN  [i \in 1..Len(buf) |->
            IF \E k \in 0..2 : (i - 1 - k) \in written
            THEN color[(CHOOSE k \in 0..2 : (i - 1 - k) \in written) + 1]
            ELSE buf[i]]

\* the loop body that counts every character whose color_index is in range
LoopBody_CountInRange(buf, drawn, ch, w, h) ==
    IF ch.color_index >= Len(MASK_COLORS)
    THEN [buffer |-> buf, regions_drawn |-> drawn]
    ELSE LET color == MASK_COLORS[ch.color_index + 1]
             r     == region_to_rect(ch.region, w, h)
         IN  IF r # None
             THEN [buffer |-> fill_rect(buf, w, Unwrap(r), color),
                   regions_drawn |-> drawn + 1]
             ELSE [buffer |-> buf, regions_drawn |-> drawn + 1]

\* the loop body that clamps an out-of-range color_index to the last colour
LoopBody_ClampColor(buf, drawn, ch, w, h) ==
    LET ci    == IF ch.color_index >= Len(MASK_COLORS)
                 THEN Len(MASK_COLORS) - 1 ELSE ch.color_index
        color == MASK_COLORS[ci + 1]
        r     == region_to_rect(ch.region, w, h)
    IN  IF r # None
        THEN [buffer |-> fill_rect(buf, w, Unwrap(r), color),
              regions_drawn |-> drawn + 1]
        ELSE [buffer |-> buf, regions_drawn |-> drawn]

\* one iteration of `for ch in characters`
LoopBody(buf, drawn, ch, w, h) ==
    IF ch.color_index >= Len(MASK_COLORS)
    THEN [buffer |-> buf, regions_drawn |-> drawn]
    ELSE LET color == MASK_COLORS[ch.color_index + 1]
             r     == region_to_rect(ch.region, w, h)
         IN  IF r # None
             THEN [buffer |-> fill_rect(buf, w, Unwrap(r), color),
                   regions_drawn |-> drawn + 1]
             ELSE [buffer |-> buf, regions_drawn |-> drawn]

----------------------------------------------------------------------------
(* Specification of the compositor: one call of generate_mask_buffer, whose
   result generate_mask reports *)

CanvasSizes == { <<1, 1>>, <<3, 5>>, <<6, 4>> }

ColorIndexInputs == {0, 1, 2, 3}

MaskRegionInputs ==
    { W_left,
      Spell(Desc(W_left, W_seated), Hyphen, "title"),
      Spell(Desc(W_right, W_background), Underscore, "lower"),
      Canon(OffScreenDesc),
      W_floating }

MaskCharacters ==
    { MaskCharacter(r, ci) : r \in MaskRegionInputs, ci \in ColorIndexInputs }

CharacterLists == UNION { [1..n -> MaskCharacters] : n \in 0..MaxChars }

InitMask ==
    /\ \E size \in CanvasSizes : img_w = size[1] /\ img_h = size[2]
    /\ characters \in CharacterLists
    /\ region = <<>>
    /\ rect = None
    /\ idx = 1
    /\ buffer = <<>>
    /\ regions_drawn = 0
    /\ mask_result = NoResult
    /\ NoFiles
    /\ png = <<>>
    /\ raw_data = <<>>
    /\ zlib = <<>>
    /\ sum = NoSum
    /\ pc = "call"

\* let pixel_count = ..; let mut buffer = vec![0u8; ..]; let mut regions_drawn = 0
AllocateBuffer ==
    /\ pc = "call"
    /\ LET pixel_count == WrappingMul(img_w, img_h)
       IN  buffer' = [i \in 1..(pixel_count * 3) |-> 0]
    /\ regions_drawn' = 0
    /\ idx' = 1
    /\ pc' = "loop"
    /\ UNCHANGED <<img_w, img_h, region, rect, characters, mask_result>>
    /\ UNCHANGED encoderVars
    /\ UNCHANGED fileVars

Iterate ==
    LET out == LoopBody(buffer, regions_drawn, characters[idx], img_w, img_h)
    IN  /\ buffer' = out.buffer
        /\ regions_drawn' = out.regions_drawn
        /\ idx' = idx + 1
        /\ UNCHANGED <<img_w, img_h, region, rect, characters, mask_result, pc>>
        /\ UNCHANGED encoderVars
        /\ UNCHANGED fileVars

\* an iteration that takes the `continue` of the color_index check
SkipInvalidColor ==
    /\ pc = "loop"
    /\ idx <= Len(characters)
    /\ characters[idx].color_index >= Len(MASK_COLORS)
    /\ Iterate

\* an iteration whose region resolves to a rectangle
DrawRegion ==
    /\ pc = "loop"
    /\ idx <= Len(characters)
    /\ characters[idx].color_index < Len(MASK_COLORS)
    /\ region_to_rect(characters[idx].region, img_w, img_h) # None
    /\ Iterate

\* an iteration whose region resolves to None
SkipRegion ==
    /\ pc = "loop"
    /\ idx <= Len(characters)
    /\ characters[idx].color_index < Len(MASK_COLORS)
    /\ region_to_rect(characters[idx].region, img_w, img_h) = None
    /\ Iterate

\* width * height overflows in a build with overflow checks
AllocatePanic ==
    /\ pc = "call"
    /\ MulOverflows(img_w, img_h)
    /\ pc' = "panicked"
    /\ UNCHANGED <<img_w, img_h, region, rect, characters, idx, buffer,
                   regions_drawn, mask_result>>
    /\ UNCHANGED encoderVars
    /\ UNCHANGED fileVars

\* fill_rect is called and img_width * 3 overflows in a build with
\* overflow checks
StridePanic ==
    /\ pc = "loop"
    /\ idx <= Len(characters)
    /\ characters[idx].color_index < Len(MASK_COLORS)
    /\ region_to_rect(characters[idx].region, img_w, img_h) # None
    /\ MulOverflows(img_w, 3)
    /\ pc' = "panicked"
    /\ UNCHANGED <<img_w, img_h, region, rect, characters, idx, buffer,
                   regions_drawn, mask_result>>
    /\ UNCHANGED encoderVars
    /\ UNCHANGED fileVars

\* generate_mask_buffer returns (buffer, regions_drawn)
ReturnBuffer ==
    /\ pc = "loop"
    /\ idx > Len(characters)
    /\ pc' = "returned"
    /\ UNCHANGED <<img_w, img_h, region, rect, characters, idx, buffer,
                   regions_drawn, mask_result>>
    /\ UNCHANGED encoderVars
    /\ UNCHANGED fileVars

\* generate_mask: Ok(MaskResult { .., width, height, regions_drawn })
ReturnMaskResult ==
    /\ pc = "returned"
    /\ mask_result' = Some([width |-> img_w, height |-> img_h,
                            regions_drawn |-> regions_drawn])
    /\ pc' = "done"
    /\ UNCHANGED <<img_w, img_h, region, rect, characters, idx, buffer,
                   regions_drawn>>
    /\ UNCHANGED encoderVars
    /\ UNCHANGED fileVars

NextMask ==
    \/ AllocateBuffer
    \/ SkipInvalidColor
    \/ DrawRegion
    \/ SkipRegion
    \/ ReturnBuffer
    \/ ReturnMaskResult

SpecMask == InitMask /\ [][NextMask]_vars

----------------------------------------------------------------------------
(* Specification of the sizing of the buffer: one call of
   generate_mask_buffer on canvases of every small size and on canvases
   whose u32 products pass 2^32 *)

\* 65536 * 65536 = 2^32; 1431655766 * 3 = 2^32 + 2; 4097 is above the
\* range 1..4096 that generate_color_mask accepts
LargeCanvases ==
    { [w |-> 65536, h |-> 65536, chars |-> <<>>],
      [w |-> 1431655766, h |-> 3, chars |-> <<>>],
      [w |-> 1431655766, h |-> 0, chars |-> <<MaskCharacter(W_left, 0)>>],
      [w |-> 4097, h |-> 1, chars |-> <<>>] }

SizingCharacterLists ==
    { <<>>,
      <<MaskCharacter(W_left, 0)>>,
      <<MaskCharacter(W_center, 3)>>,
      <<MaskCharacter(W_floating, 1)>> }

SizingInputs ==
    { [w |-> w, h |-> h, chars |-> cs] :
          w \in 0..MaxDim, h \in 0..MaxDim, cs \in SizingCharacterLists }
        \cup LargeCanvases

InitSizing ==
    /\ \E in \in SizingInputs :
           /\ img_w = in.w
           /\ img_h = in.h
           /\ characters = in.chars
    /\ region = <<>>
    /\ rect = None
    /\ idx = 1
    /\ buffer = <<>>
    /\ regions_drawn = 0
    /\ mask_result = NoResult
    /\ NoFiles
    /\ png = <<>>
    /\ raw_data = <<>>
    /\ zlib = <<>>
    /\ sum = NoSum
    /\ pc = "call"

NextSizing ==
    \/ AllocateBuffer
    \/ AllocatePanic
    \/ SkipInvalidColor
    \/ DrawRegion
    \/ StridePanic
    \/ SkipRegion
    \/ ReturnBuffer

SpecSizing == InitSizing /\ [][NextSizing]_vars

----------------------------------------------------------------------------
(* Specification of fill_rect: one call on a buffer, a row width and a
   rectangle that need not fit each other.  The fields of the rectangle
   are u32 values, kept as halves. *)

MaxRect == 3

WideRect(x, y, w, h) == [x |-> x, y |-> y, w |-> w, h |-> h]

\* the rectangle with its fields as numbers
NarrowRect(r) == Rect(ToInt(r.x), ToInt(r.y), ToInt(r.w), ToInt(r.h))

\* buffers of whole pixels and one that ends inside a pixel
FillBufferLengths == {0, 3, 11, 12, 18}

FillWidths == {1, 2, 3}

\* rectangles and widths at the end of the u32 range: y + h = 2^32, and
\* img_width * 3 = 2^32 + 2
FillEdgeInputs ==
    { [width |-> 1, len |-> 3,
       r |-> WideRect(ToU32(0), U32(65535, 65535), ToU32(1), ToU32(1))],
      [width |-> 1431655766, len |-> 3,
       r |-> WideRect(ToU32(0), ToU32(0), ToU32(1), ToU32(1))] }

FillInputs ==
    { [width |-> iw, len |-> n,
       r |-> WideRect(ToU32(x), ToU32(y), ToU32(w), ToU32(h))] :
          iw \in FillWidths, n \in FillBufferLengths,
          x \in 0..MaxRect, y \in 0..MaxRect,
          w \in 0..MaxRect, h \in 0..MaxRect }
        \cup FillEdgeInputs

FillColor == <<255, 0, 0>>

InitFill ==
    /\ \E in \in FillInputs :
           /\ img_w = in.width
           /\ buffer = [i \in 1..in.len |-> 0]
           /\ rect = Some(in.r)
    /\ img_h = 0
    /\ region = <<>>
    /\ characters = <<>>
    /\ idx = 1
    /\ regions_drawn = 0
    /\ mask_result = NoResult
    /\ NoFiles
    /\ png = <<>>
    /\ raw_data = <<>>
    /\ zlib = <<>>
    /\ sum = NoSum
    /\ pc = "fill_rect"

fillFrame ==
    <<img_w, img_h, region, rect, characters, idx, regions_drawn,
      mask_result>>

\* img_width * 3 or rect.y + rect.h overflows
FillOverflows ==
    \/ MulOverflows(img_w, 3)
    \/ add_u32(Unwrap(rect).y, Unwrap(rect).h).overflow

\* fill_rect runs to its end; where rect.y + rect.h wraps, the range of
\* rows rect.y..(rect.y + rect.h) is empty
FillRect ==
    /\ pc = "fill_rect"
    /\ buffer' = IF add_u32(Unwrap(rect).y, Unwrap(rect).h).overflow
                 THEN buffer
                 ELSE fill_rect(buffer, img_w, NarrowRect(Unwrap(rect)),
                                FillColor)
    /\ pc' = "filled"
    /\ UNCHANGED fillFrame
    /\ UNCHANGED encoderVars
    /\ UNCHANGED fileVars

\* fill_rect in a build with overflow checks, on an overflow
FillPanic ==
    /\ pc = "fill_rect"
    /\ FillOverflows
    /\ pc' = "panicked"
    /\ UNCHANGED buffer
    /\ UNCHANGED fillFrame
    /\ UNCHANGED encoderVars
    /\ UNCHANGED fileVars

NextFill ==
    \/ FillRect
    \/ FillPanic

SpecFill == InitFill /\ [][NextFill]_vars

----------------------------------------------------------------------------
(* Properties of the compositor *)

\* the inputs the loop has gone through
Processed == 1..(idx - 1)

InLoopOrAfter == pc \in {"loop", "returned", "done"}

\* the rectangle input i is painted with: None if its color_index is out of
\* the palette or its region resolves to no rectangle
PaintedRect(i) ==
    IF characters[i].color_index < 3
    THEN region_to_rect(characters[i].region, img_w, img_h)
    ELSE None

Drawable(i) == PaintedRect(i) # None

Inside(o, px, py) ==
    /\ o # None
    /\ Unwrap(o).x <= px /\ px < Unwrap(o).x + Unwrap(o).w
    /\ Unwrap(o).y <= py /\ py < Unwrap(o).y + Unwrap(o).h

\* the three bytes of pixel (px, py)
PixelAt(px, py) ==
    [k \in 1..3 |-> buffer[(py * img_w + px) * 3 + k]]

SetMax(S) == CHOOSE m \in S : \A n \in S : n <= m

\* C9: after the inputs processed so far, every pixel holds the palette colour
\* of the last processed input that has a colour in range and a rectangle
\* containing the pixel, and is black if there is none.
C9_LastWriteWins ==
    InLoopOrAfter =>
        LET painted == [i \in Processed |-> PaintedRect(i)]
        IN  /\ Len(buffer) = img_w * img_h * 3
            /\ \A px \in 0..(img_w - 1), py \in 0..(img_h - 1) :
                  LET painters == { i \in Processed : Inside(painted[i], px, py) }
                  IN  PixelAt(px, py) =
                          IF painters = {} THEN <<0, 0, 0>>
                          ELSE MASK_COLORS[characters[SetMax(painters)].color_index + 1]

\* two drawn inputs of different colours whose rectangles overlap in part:
\* the overlap shows the later colour, the rest of the earlier rectangle
\* keeps the earlier one, and some pixel stays black
C9_Witness ==
    /\ pc = "returned"
    /\ Len(characters) = 2
    /\ Drawable(1) /\ Drawable(2)
    /\ characters[1].color_index # characters[2].color_index
    /\ \E px \in 0..(img_w - 1), py \in 0..(img_h - 1) :
          /\ Inside(PaintedRect(1), px, py) /\ Inside(PaintedRect(2), px, py)
          /\ PixelAt(px, py) = MASK_COLORS[characters[2].color_index + 1]
    /\ \E px \in 0..(img_w - 1), py \in 0..(img_h - 1) :
          /\ Inside(PaintedRect(1), px, py) /\ ~Inside(PaintedRect(2), px, py)
          /\ PixelAt(px, py) = MASK_COLORS[characters[1].color_index + 1]
    /\ \E px \in 0..(img_w - 1), py \in 0..(img_h - 1) :
          PixelAt(px, py) = <<0, 0, 0>>

\* C10: the drawn count is the number of processed inputs whose color_index
\* is below 3 and whose region resolves to a rectangle; generate_mask_buffer
\* returns that number for the whole list and generate_mask reports it
\* unchanged; it never exceeds the length of the list.
C10_DrawnCount ==
    /\ InLoopOrAfter =>
          /\ regions_drawn = Cardinality({ i \in Processed : Drawable(i) })
          /\ regions_drawn <= Len(characters)
    /\ pc \in {"returned", "done"} => Processed = 1..Len(characters)
    /\ pc = "done" =>
          /\ mask_result # NoResult
          /\ Unwrap(mask_result).regions_drawn =
                 Cardinality({ i \in 1..Len(characters) : Drawable(i) })

\* a list of a drawn input and an input whose color_index is out of range:
\* one region reported
C10_Witness ==
    /\ pc = "done"
    /\ Len(characters) = 2
    /\ \E i \in 1..2 : characters[i].color_index >= 3
    /\ \E i \in 1..2 : Drawable(i)
    /\ Unwrap(mask_result).regions_drawn = 1

\* an input that is not to be drawn: its color_index is outside the palette,
\* or its region is off-screen or outside the vocabulary
NotDrawnInput(ch) ==
    \/ ch.color_index >= 3
    \/ ch.region \in UnknownInputs \cup {Canon(OffScreenDesc)}

\* the step that processes the input at idx leaves buffer and count alone
\* when the input is not to be drawn, and moves on to the next input
SkipStepKeepsState ==
    (pc = "loop" /\ idx <= Len(characters) /\ NotDrawnInput(characters[idx])) =>
        /\ buffer' = buffer
        /\ regions_drawn' = regions_drawn
        /\ idx' = idx + 1
        /\ pc' = "loop"

\* a returned call on a list of inputs none of which is to be drawn
OnlySkippedInputs ==
    /\ pc \in {"returned", "done"}
    /\ \A i \in 1..Len(characters) : NotDrawnInput(characters[i])

\* C11: processing an input whose color_index is out of range, or whose
\* region is off-screen or unrecognized, leaves the buffer and the drawn
\* count as they were and goes on with the next input; every input of the
\* list is processed before the call returns; a list of such inputs only
\* yields regions_drawn = 0 and an all-black buffer.
C11_SkippedInputsLeaveNoTrace ==
    /\ [][SkipStepKeepsState]_vars
    /\ [](pc \in {"returned", "done"} => idx = Len(characters) + 1)
    /\ [](OnlySkippedInputs =>
            /\ regions_drawn = 0
            /\ Len(buffer) = img_w * img_h * 3
            /\ \A i \in 1..Len(buffer) : buffer[i] = 0)

\* an off-screen input followed by a drawn one: the second is still painted
C11_Witness ==
    /\ pc = "returned"
    /\ Len(characters) = 2
    /\ characters[1].region = Canon(OffScreenDesc)
    /\ characters[1].color_index < 3
    /\ Drawable(2)
    /\ regions_drawn = 1
    /\ \E i \in 1..Len(buffer) : buffer[i] # 0

\* generate_mask_buffer has returned
BufferReturned == pc \in {"returned", "done"}

AllBlack == \A i \in 1..Len(buffer) : buffer[i] = 0

\* C29: on every canvas with W >= 1 and H >= 1, regions_drawn >= 1 implies
\* that the returned buffer has a pixel that is not black, so that
\* regions_drawn = 0 exactly when the mask is all black.
C29_DrawnMeansColoured ==
    (BufferReturned /\ img_w >= 1 /\ img_h >= 1) =>
        /\ regions_drawn >= 1 => ~AllBlack
        /\ (regions_drawn = 0) = AllBlack

\* what the code ensures: a mask with a coloured pixel has a drawn region
ColouredMeansDrawn ==
    (BufferReturned /\ ~AllBlack) => regions_drawn >= 1

\* the byte offsets of the pixels of rectangle r in rows of `width` pixels
\* that lie, with their three bytes, inside a buffer of n bytes
PixelOffsets(r, width) ==
    { (r.y + row) * (width * 3) + (r.x + col) * 3 :
          row \in 0..(r.h - 1), col \in 0..(r.w - 1) }

InRange(offsets, n) == { o \in offsets : o + 3 <= n }

FillEffect ==
    pc = "fill_rect" =>
        /\ pc' # "panicked"
        /\ Len(buffer') = Len(buffer)
        /\ ~FillOverflows =>
               LET offs == InRange(PixelOffsets(NarrowRect(Unwrap(rect)), img_w),
                                   Len(buffer))
               IN  \A i \in 1..Len(buffer) :
                       buffer'[i] =
                           IF \E o \in offs : i - 1 \in o..(o + 2)
                           THEN FillColor[((i - 1) % 3) + 1]
                           ELSE buffer[i]

\* C26: fill_rect writes at no index outside the buffer, whatever the
\* rectangle: it ends without a panic, the buffer keeps its length, every
\* pixel of the rectangle whose three bytes are inside the buffer is
\* written and no other byte changes.
C26_FillStaysInBuffer == [][FillEffect]_vars

\* what the code ensures: the same, for rectangles and widths whose u32
\* sums and products stay below 2^32
FillEffectUnlessOverflow ==
    [][(pc = "fill_rect" /\ ~FillOverflows) => FillEffect]_vars

\* a rectangle past the right and lower edge of a 2 x 2 canvas was filled
FillPastCanvas ==
    /\ pc = "filled"
    /\ img_w = 2
    /\ Len(buffer) = 12
    /\ NarrowRect(Unwrap(rect)) = Rect(1, 1, 3, 3)
    /\ SubSeq(buffer, 10, 12) = FillColor

\* the exact product m * n, as its eight bytes, least significant first
ExactProduct(m, n) == ProductDigits(Digits(ToU32(m)), Digits(ToU32(n)), 0, 0)

\* the eight bytes of a number below 2^31
EightBytes(n) ==
    <<n % 256, (n \div 256) % 256, (n \div 65536) % 256, n \div 16777216,
      0, 0, 0, 0>>

\* C25: for every width and height, generate_mask_buffer runs without an
\* overflow panic, its buffer has exactly width * height * 3 bytes, all zero
\* before the first fill, and the u32 products width * height and
\* img_width * 3 do not pass 2^32, also above the range 1..4096.
C25_BufferSizing ==
    /\ pc # "panicked"
    /\ InLoopOrAfter =>
           /\ Len(buffer) % 3 = 0
           /\ EightBytes(Len(buffer) \div 3) = ExactProduct(img_w, img_h)
    /\ (pc = "loop" /\ idx = 1) => \A i \in 1..Len(buffer) : buffer[i] = 0
    /\ (pc = "loop" /\ idx > 1 /\ Drawable(idx - 1)) =>
           EightBytes(WrappingMul(img_w, 3)) = ExactProduct(img_w, 3)

\* what the code ensures: the size and the zero fill are right whenever the
\* product width * height is below 2^32
SizingUnlessOverflow ==
    (InLoopOrAfter /\ ~MulOverflows(img_w, img_h)) =>
        /\ Len(buffer) = 3 * WrappingMul(img_w, img_h)
        /\ EightBytes(Len(buffer) \div 3) = ExactProduct(img_w, img_h)
        /\ (pc = "loop" /\ idx = 1) => \A i \in 1..Len(buffer) : buffer[i] = 0


----------------------------------------------------------------------------
(* Bit operations on u32 values; a Vec<u8> is a sequence of numbers
   0..255. *)

\* a sequence value in tuple form
Vec(s) == s \o <<>>

RECURSIVE XorBits(_, _, _)
XorBits(a, b, n) ==
    IF n = 0 THEN 0
    ELSE ((a + b) % 2) + 2 * XorBits(a \div 2, b \div 2, n - 1)

RECURSIVE OrBits(_, _, _)
OrBits(a, b, n) ==
    IF n = 0 THEN 0
    ELSE (IF a % 2 = 1 \/ b % 2 = 1 THEN 1 ELSE 0)
             + 2 * OrBits(a \div 2, b \div 2, n - 1)

XorByteTable == [a \in 0..255 |-> [b \in 0..255 |-> XorBits(a, b, 8)]]

XorByte(a, b) == XorByteTable[a][b]

Xor16(a, b) ==
    XorByte(a \div 256, b \div 256) * 256 + XorByte(a % 256, b % 256)

\* x ^ y
Xor32(x, y) == U32(Xor16(x.hi, y.hi), Xor16(x.lo, y.lo))

\* x | y
Or32(x, y) == U32(OrBits(x.hi, y.hi, 16), OrBits(x.lo, y.lo, 16))

\* x >> 1 and x >> 8
Shr1(x) == U32(x.hi \div 2, (x.hi % 2) * 32768 + (x.lo \div 2))
Shr8(x) == U32(x.hi \div 256, (x.hi % 256) * 256 + (x.lo \div 256))

\* x << 16
Shl16(x) == U32(x.lo, 0)

\* u32::to_be_bytes
to_be_bytes(x) ==
    <<x.hi \div 256, x.hi % 256, x.lo \div 256, x.lo % 256>>

\* u16::to_le_bytes
to_le_bytes16(n) == <<n % 256, n \div 256>>

----------------------------------------------------------------------------
(* mask_generator.rs: the checksum engines *)

CRC_POLY == U32(60856, 33568)     \* 0xEDB88320
ALL_ONES == U32(65535, 65535)     \* 0xFFFF_FFFF

\* c = if c & 1 != 0 { 0xEDB88320 ^ (c >> 1) } else { c >> 1 }
CrcShift(c) ==
    IF c.lo % 2 # 0 THEN Xor32(CRC_POLY, Shr1(c)) ELSE Shr1(c)

RECURSIVE CrcShifts(_, _)
CrcShifts(c, k) == IF k = 0 THEN c ELSE CrcShifts(CrcShift(c), k - 1)

\* the table with seven shift steps per entry
crc_table_SevenShifts == [n \in 0..255 |-> CrcShifts(U32(0, n), 7)]

\* let mut table = [0u32; 256]; for n in 0..256 { .. }
crc_table == [n \in 0..255 |-> CrcShifts(U32(0, n), 8)]

\* crc = table[((crc ^ b as u32) & 0xFF) as usize] ^ (crc >> 8)
crc32_step(crc, b) ==
    Xor32(crc_table[XorByte(crc.lo % 256, b)], Shr8(crc))

\* the loop `for &b in data` over data[lo..hi], in order
RECURSIVE crc32_loop(_, _, _, _)
crc32_loop(crc, data, lo, hi) ==
    IF lo > hi THEN crc
    ELSE IF lo = hi THEN crc32_step(crc, data[lo])
    ELSE LET mid  == (lo + hi) \div 2
             left == crc32_loop(crc, data, lo, mid)
         IN  IF left = left THEN crc32_loop(left, data, mid + 1, hi) ELSE left

crc32(data) ==
    Xor32(crc32_loop(ALL_ONES, Vec(data), 1, Len(data)), ALL_ONES)

\* the adler32 step that adds the old a to b
adler32_step_OldA(st, byte) ==
    [a |-> (st.a + byte) % 65521, b |-> (st.b + st.a) % 65521]

\* a = (a + byte as u32) % 65521; b = (b + a) % 65521
adler32_step(st, byte) ==
    LET a == (st.a + byte) % 65521
    IN  [a |-> a, b |-> (st.b + a) % 65521]

RECURSIVE adler32_loop(_, _, _, _)
adler32_loop(st, data, lo, hi) ==
    IF lo > hi THEN st
    ELSE IF lo = hi THEN adler32_step(st, data[lo])
    ELSE LET mid  == (lo + hi) \div 2
             left == adler32_loop(st, data, lo, mid)
         IN  IF left = left THEN adler32_loop(left, data, mid + 1, hi) ELSE left

\* (b << 16) | a
adler32_result(st) == Or32(Shl16(ToU32(st.b)), ToU32(st.a))

adler32(data) ==
    adler32_result(adler32_loop([a |-> 1, b |-> 0], Vec(data), 1, Len(data)))

----------------------------------------------------------------------------
(* Specification of the checksum engines: one call of crc32 or of adler32
   on a byte sequence, one step per byte *)

MaxLen == 2

SampleBytes == {0, 1, 128, 255}

Bytes_IEND      == <<73, 69, 78, 68>>
Bytes_Wikipedia == <<87, 105, 107, 105, 112, 101, 100, 105, 97>>

\* 260 bytes 0xFF: the sum of the bytes passes 65521
LongRun == [i \in 1..260 |-> 255]

ChecksumInputs ==
    UNION { [1..n -> SampleBytes] : n \in 0..MaxLen }
        \cup {Bytes_IEND, Bytes_Wikipedia, LongRun}

InitChecksum ==
    /\ buffer \in ChecksumInputs
    /\ pc \in {"crc32", "adler32"}
    /\ sum = [pos |-> 0, crc |-> ALL_ONES, a |-> 1, b |-> 0]
    /\ img_w = 0
    /\ img_h = 0
    /\ region = <<>>
    /\ rect = None
    /\ characters = <<>>
    /\ idx = 1
    /\ regions_drawn = 0
    /\ mask_result = NoResult
    /\ NoFiles
    /\ png = <<>>
    /\ raw_data = <<>>
    /\ zlib = <<>>

checksumFrame ==
    <<img_w, img_h, region, rect, characters, idx, buffer, regions_drawn,
      mask_result, png, raw_data, zlib, fs, calls, clock, log, gens>>

\* one iteration of the loop of crc32
Crc32Byte ==
    /\ pc = "crc32"
    /\ sum.pos < Len(buffer)
    /\ sum' = [sum EXCEPT !.pos = @ + 1,
                          !.crc = crc32_step(@, buffer[sum.pos + 1])]
    /\ UNCHANGED pc
    /\ UNCHANGED checksumFrame

\* crc ^ 0xFFFF_FFFF
Crc32Return ==
    /\ pc = "crc32"
    /\ sum.pos = Len(buffer)
    /\ sum' = [sum EXCEPT !.crc = Xor32(@, ALL_ONES)]
    /\ pc' = "crc32_done"
    /\ UNCHANGED checksumFrame

\* one iteration of the loop of adler32
Adler32Byte ==
    /\ pc = "adler32"
    /\ sum.pos < Len(buffer)
    /\ LET st == adler32_step([a |-> sum.a, b |-> sum.b], buffer[sum.pos + 1])
       IN  sum' = [sum EXCEPT !.pos = @ + 1, !.a = st.a, !.b = st.b]
    /\ UNCHANGED pc
    /\ UNCHANGED checksumFrame

\* (b << 16) | a
Adler32Return ==
    /\ pc = "adler32"
    /\ sum.pos = Len(buffer)
    /\ sum' = [sum EXCEPT !.crc = adler32_result([a |-> sum.a, b |-> sum.b])]
    /\ pc' = "adler32_done"
    /\ UNCHANGED checksumFrame

NextChecksum ==
    \/ Crc32Byte
    \/ Crc32Return
    \/ Adler32Byte
    \/ Adler32Return

SpecChecksum == InitChecksum /\ [][NextChecksum]_vars

----------------------------------------------------------------------------
(* mask_generator.rs: encode_png and write_png_chunk *)

PNG_SIGNATURE == <<137, 80, 78, 71, 13, 10, 26, 10>>

TAG_IHDR == <<73, 72, 68, 82>>     \* b"IHDR"
TAG_IDAT == <<73, 68, 65, 84>>     \* b"IDAT"
TAG_IEND == <<73, 69, 78, 68>>     \* b"IEND"

\* the chunk whose checksum covers the data only
write_png_chunk_CrcOfData(out, chunk_type, data) ==
    out \o to_be_bytes(ToU32(Len(data))) \o chunk_type \o data
        \o to_be_bytes(crc32(data))

write_png_chunk(out, chunk_type, data) ==
    LET crc_buf == chunk_type \o data
    IN  out \o to_be_bytes(ToU32(Len(data))) \o chunk_type \o data
            \o to_be_bytes(crc32(crc_buf))

\* the header data with height before width
ihdr_data_HeightFirst(width, height) ==
    to_be_bytes(ToU32(height)) \o to_be_bytes(ToU32(width)) \o <<8, 2, 0, 0, 0>>

\* the Vec ihdr
ihdr_data(width, height) ==
    to_be_bytes(ToU32(width)) \o to_be_bytes(ToU32(height)) \o <<8, 2, 0, 0, 0>>

\* rows lo..hi of the scanline stream: [filter_byte=0][R,G,B...] per row
RECURSIVE scanline_rows(_, _, _, _)
scanline_rows(buf, row_bytes, lo, hi) ==
    IF lo > hi THEN <<>>
    ELSE IF lo = hi
         THEN <<0>> \o SubSeq(buf, lo * row_bytes + 1, (lo + 1) * row_bytes)
    ELSE LET mid  == (lo + hi) \div 2
             left == scanline_rows(buf, row_bytes, lo, mid)
         IN  IF left = left
             THEN left \o scanline_rows(buf, row_bytes, mid + 1, hi)
             ELSE left

\* for y in 0..height { raw_data.push(0); raw_data.extend(row y) }
scanlines(buf, width, height) ==
    scanline_rows(Vec(buf), width * 3, 0, height - 1)

max_block == 65535

\* slice::chunks from the i-th chunk on: consecutive slices of `size`
\* elements, the last one shorter when the length is no multiple of it
RECURSIVE chunks_from(_, _, _)
chunks_from(data, size, i) ==
    IF (i - 1) * size >= Len(data) THEN <<>>
    ELSE LET end == IF i * size < Len(data) THEN i * size ELSE Len(data)
         IN  <<SubSeq(data, (i - 1) * size + 1, end)>>
                 \o chunks_from(data, size, i + 1)

chunks(data, size) == chunks_from(data, size, 1)

\* `as u16` and `!len` on a u16
as_u16(n)  == n % 65536
not_u16(n) == 65535 - n

\* the block whose second length field is the two's complement
stored_block_TwosComplement(chunk, is_final) ==
    LET len == as_u16(Len(chunk))
    IN  <<IF is_final THEN 1 ELSE 0>>
            \o to_le_bytes16(len) \o to_le_bytes16(as_u16(65536 - len)) \o chunk

\* the body of the loop over the chunks
stored_block(chunk, is_final) ==
    LET len == as_u16(Len(chunk))
    IN  <<IF is_final THEN 1 ELSE 0>>
            \o to_le_bytes16(len) \o to_le_bytes16(not_u16(len)) \o chunk

\* for (i, chunk) in chunks.iter().enumerate(), from the i-th chunk on
RECURSIVE stored_blocks(_, _)
stored_blocks(chs, i) ==
    IF i > Len(chs) THEN <<>>
    ELSE stored_block(chs[i], i - 1 = Len(chs) - 1)
             \o stored_blocks(chs, i + 1)

\* the container with blocks of at most max_block - 1 bytes
zlib_stream_ShortBlocks(raw) ==
    LET chs == chunks(Vec(raw), max_block - 1)
    IN  <<120, 1>> \o stored_blocks(chs, 1) \o to_be_bytes(adler32(raw))

\* the container whose flag byte is 0x02
zlib_stream_BadFlag(raw) ==
    LET chs == chunks(Vec(raw), max_block)
    IN  <<120, 2>> \o stored_blocks(chs, 1) \o to_be_bytes(adler32(raw))

\* the container whose checksum covers the last chunk only
zlib_stream_AdlerOfLastChunk(raw) ==
    LET chs == chunks(Vec(raw), max_block)
    IN  <<120, 1>> \o stored_blocks(chs, 1)
            \o to_be_bytes(adler32(IF chs = <<>> THEN <<>> ELSE chs[Len(chs)]))

\* the Vec zlib: CMF, FLG, the stored blocks, adler32 of raw_data
zlib_stream(raw) ==
    LET chs == chunks(Vec(raw), max_block)
    IN  <<120, 1>> \o stored_blocks(chs, 1) \o to_be_bytes(adler32(raw))

encode_png(buf, width, height) ==
    LET header == write_png_chunk(PNG_SIGNATURE, TAG_IHDR,
                                  ihdr_data(width, height))
        data   == write_png_chunk(header, TAG_IDAT,
                                  zlib_stream(scanlines(buf, width, height)))
    IN  write_png_chunk(data, TAG_IEND, <<>>)

----------------------------------------------------------------------------
(* Specification of the encoder: one call of encode_png on a buffer of
   width * height * 3 bytes, one step per part of the file *)

MaxPixels == 4

PixelColors == {<<0, 0, 0>>, <<255, 0, 0>>, <<1, 2, 3>>}

\* canvases whose scanline stream fills one block exactly (65535 bytes:
\* 28 x 771 and 0 x 65535) and needs a second block for its last byte
\* (65536 bytes: 85 x 256 and 0 x 65536)
BigCanvases == {<<28, 771>>, <<0, 65535>>, <<85, 256>>, <<0, 65536>>}

SmallCanvases ==
    {c \in (0..MaxPixels) \X (0..MaxPixels) : c[1] * c[2] <= MaxPixels}

\* the RGB buffer of the pixels px, row-major
Flatten(px) ==
    [i \in 1..(3 * Len(px)) |-> px[((i - 1) \div 3) + 1][((i - 1) % 3) + 1]]

Pattern(n) == Vec([i \in 1..n |-> (i * 37) % 251])

PngInputs ==
    UNION { { [w |-> c[1], h |-> c[2], buf |-> Flatten(px)] :
                  px \in [1..(c[1] * c[2]) -> PixelColors] } :
            c \in SmallCanvases }
        \cup { [w |-> c[1], h |-> c[2], buf |-> Pattern(c[1] * c[2] * 3)] :
               c \in BigCanvases }

InitPng ==
    /\ \E in \in PngInputs :
           /\ img_w = in.w
           /\ img_h = in.h
           /\ buffer = in.buf
    /\ pc = "encode_png"
    /\ png = <<>>
    /\ raw_data = <<>>
    /\ zlib = <<>>
    /\ sum = NoSum
    /\ region = <<>>
    /\ rect = None
    /\ characters = <<>>
    /\ idx = 1
    /\ regions_drawn = 0
    /\ mask_result = NoResult
    /\ NoFiles

pngFrame ==
    <<img_w, img_h, region, rect, characters, idx, buffer, regions_drawn,
      mask_result, sum, fs, calls, clock, log, gens>>

\* png.extend_from_slice(&[137, 80, 78, 71, 13, 10, 26, 10])
WriteSignature ==
    /\ pc = "encode_png"
    /\ png' = png \o PNG_SIGNATURE
    /\ pc' = "ihdr"
    /\ UNCHANGED <<raw_data, zlib>>
    /\ UNCHANGED pngFrame

WriteHeader ==
    /\ pc = "ihdr"
    /\ png' = write_png_chunk(png, TAG_IHDR, ihdr_data(img_w, img_h))
    /\ pc' = "scanlines"
    /\ UNCHANGED <<raw_data, zlib>>
    /\ UNCHANGED pngFrame

BuildScanlines ==
    /\ pc = "scanlines"
    /\ raw_data' = scanlines(buffer, img_w, img_h)
    /\ pc' = "zlib"
    /\ UNCHANGED <<png, zlib>>
    /\ UNCHANGED pngFrame

BuildZlib ==
    /\ pc = "zlib"
    /\ zlib' = zlib_stream(raw_data)
    /\ pc' = "idat"
    /\ UNCHANGED <<png, raw_data>>
    /\ UNCHANGED pngFrame

WriteData ==
    /\ pc = "idat"
    /\ png' = write_png_chunk(png, TAG_IDAT, zlib)
    /\ pc' = "iend"
    /\ UNCHANGED <<raw_data, zlib>>
    /\ UNCHANGED pngFrame

WriteEnd ==
    /\ pc = "iend"
    /\ png' = write_png_chunk(png, TAG_IEND, <<>>)
    /\ pc' = "encoded"
    /\ UNCHANGED <<raw_data, zlib>>
    /\ UNCHANGED pngFrame

NextPng ==
    \/ WriteSignature
    \/ WriteHeader
    \/ BuildScanlines
    \/ BuildZlib
    \/ WriteData
    \/ WriteEnd

SpecPng == InitPng /\ [][NextPng]_vars

----------------------------------------------------------------------------
(* generate_mask and the file system.  A thread runs generate_mask in
   steps: create_dir_all, the composition of the PNG in memory, then
   std::fs::write, which opens the file with create + truncate and hands
   the bytes to write() until all are written.  Other threads run
   between the steps.  A file name is the triple of a format!: the text
   before the number, the number, the text after it. *)

MaxCalls == 2
MaxClock == 1
ShortWrite == 8

Threads == {1, 2}

\* format!("mask_{}.png", ts)
mask_name(ts) == <<"mask_", ts, ".png">>

test_name(n) == <<"test_", n, ".png">>

\* generate_mask_buffer, as the fold of its loop
RECURSIVE mask_loop(_, _, _, _, _, _)
mask_loop(buf, drawn, chars, i, w, h) ==
    IF i > Len(chars) THEN [buffer |-> buf, regions_drawn |-> drawn]
    ELSE LET out == LoopBody(buf, drawn, chars[i], w, h)
         IN  mask_loop(out.buffer, out.regions_drawn, chars, i + 1, w, h)

generate_mask_buffer(chars, width, height) ==
    mask_loop([i \in 1..(WrappingMul(width, height) * 3) |-> 0], 0,
              chars, 1, width, height)

\* filename.map(String::from).unwrap_or_else(|| format!("mask_{}.png", ts))
fname_TimestampAlways(filename, ts) == mask_name(ts)

fname(filename, ts) ==
    IF filename # None THEN Unwrap(filename) ELSE mask_name(ts)

\* OpenOptions::new().write(true).create(true).truncate(true)
File_create(files, path) == (path :> <<>>) @@ files

\* write() of the bytes chunk at the offset of the file handle; a file
\* shorter than the offset is filled up with zero bytes
write_at(content, offset, chunk) ==
    LET n == IF offset + Len(chunk) > Len(content)
             THEN offset + Len(chunk) ELSE Len(content)
    IN  [i \in 1..n |->
            IF i > offset /\ i <= offset + Len(chunk) THEN chunk[i - offset]
            ELSE IF i <= Len(content) THEN content[i]
            ELSE 0]

\* the numbers of bytes a write() of `remaining` bytes at `offset` may
\* accept: all of them, or, for the first write() of a file, ShortWrite
WriteSizes(offset, remaining) ==
    {remaining} \cup {n \in {ShortWrite} : offset = 0 /\ n < remaining}

Ok(v)  == [ok |-> TRUE, value |-> v]
Err(e) == [ok |-> FALSE, value |-> e]

MaskResult(path, width, height, drawn) ==
    [path |-> path, width |-> width, height |-> height,
     regions_drawn |-> drawn]

MaskArgs(chars, width, height, filename) ==
    [characters |-> chars, width |-> width, height |-> height,
     filename |-> filename]

Idle(left) ==
    [pc |-> "idle", left |-> left, args |-> <<>>, png_data |-> <<>>,
     regions_drawn |-> 0, output_path |-> <<>>, offset |-> 0]

\* canvases of one pixel (a file of 72 bytes) and of two (75 bytes), black
\* or with a region, and the canvas whose pixel count is 2^32
MaskCallInputs ==
    { MaskArgs(<<>>, 1, 1, None),
      MaskArgs(<<>>, 1, 1, Some(test_name(1))),
      MaskArgs(<<>>, 2, 1, Some(test_name(1))),
      MaskArgs(<<MaskCharacter(W_right, 0)>>, 2, 1, Some(test_name(1))),
      MaskArgs(<<>>, 65536, 65536, Some(test_name(1))) }

maskFrame ==
    <<img_w, img_h, region, rect, characters, idx, buffer, regions_drawn,
      mask_result, png, raw_data, zlib, sum, pc>>

\* thread t begins a call of generate_mask
Call(t) ==
    /\ calls[t].pc \in {"idle", "returned"}
    /\ calls[t].left > 0
    /\ \E a \in MaskCallInputs :
           calls' = [calls EXCEPT ![t] =
                        [Idle(calls[t].left - 1) EXCEPT
                            !.pc = "create_dir_all", !.args = a]]
    /\ UNCHANGED <<fs, clock, log, gens>>
    /\ UNCHANGED maskFrame

\* std::fs::create_dir_all(output_dir)?
CreateDir(t) ==
    /\ calls[t].pc = "create_dir_all"
    /\ fs' = [fs EXCEPT !.dir = TRUE]
    /\ calls' = [calls EXCEPT ![t].pc = "compose"]
    /\ UNCHANGED <<clock, log, gens>>
    /\ UNCHANGED maskFrame

CreateDirFail(t) ==
    /\ calls[t].pc = "create_dir_all"
    /\ calls' = [calls EXCEPT ![t].pc = "returned"]
    /\ log' = Append(log, [thread |-> t, args |-> calls[t].args,
                           result |-> Err("Failed to create mask output directory"),
                           file |-> None])
    /\ UNCHANGED <<fs, clock, gens>>
    /\ UNCHANGED maskFrame

\* generate_mask_buffer, encode_png and the choice of the file name
Compose(t) ==
    LET a   == calls[t].args
        out == generate_mask_buffer(a.characters, a.width, a.height)
    IN  /\ calls[t].pc = "compose"
        /\ ~MulOverflows(a.width, a.height)
        /\ calls' = [calls EXCEPT
               ![t].pc = "create",
               ![t].png_data = encode_png(out.buffer, a.width, a.height),
               ![t].regions_drawn = out.regions_drawn,
               ![t].output_path = fname(a.filename, clock)]
        /\ UNCHANGED <<fs, clock, log, gens>>
        /\ UNCHANGED maskFrame

\* width * height passes 2^32: with overflow checks the multiplication
\* panics; without, the buffer is shorter than height rows and the slice
\* buffer[start..start + row_bytes] of encode_png panics
ComposePanic(t) ==
    /\ calls[t].pc = "compose"
    /\ MulOverflows(calls[t].args.width, calls[t].args.height)
    /\ calls' = [calls EXCEPT ![t].pc = "panicked"]
    /\ UNCHANGED <<fs, clock, log, gens>>
    /\ UNCHANGED maskFrame

\* std::fs::write: File::create(path)?
CreateFile(t) ==
    /\ calls[t].pc = "create"
    /\ fs.dir
    /\ fs' = [fs EXCEPT !.files = File_create(fs.files, calls[t].output_path)]
    /\ calls' = [calls EXCEPT ![t].pc = "write_all", ![t].offset = 0]
    /\ UNCHANGED <<clock, log, gens>>
    /\ UNCHANGED maskFrame

\* std::fs::write: file.write_all(contents), one write()
Write(t) ==
    LET c    == calls[t]
        rest == Len(c.png_data) - c.offset
    IN  /\ c.pc = "write_all"
        /\ rest > 0
        /\ c.output_path \in DOMAIN fs.files
        /\ \E n \in WriteSizes(c.offset, rest) :
              /\ fs' = [fs EXCEPT !.files[c.output_path] =
                            write_at(@, c.offset,
                                     SubSeq(c.png_data, c.offset + 1,
                                            c.offset + n))]
              /\ calls' = [calls EXCEPT ![t].offset = c.offset + n]
        /\ UNCHANGED <<clock, log, gens>>
        /\ UNCHANGED maskFrame

\* File::create or write() fails: .map_err(.. "Failed to write mask PNG")?
WriteFail(t) ==
    /\ calls[t].pc \in {"create", "write_all"}
    /\ calls' = [calls EXCEPT ![t].pc = "returned"]
    /\ log' = Append(log, [thread |-> t, args |-> calls[t].args,
                           result |-> Err("Failed to write mask PNG"),
                           file |-> None])
    /\ UNCHANGED <<fs, clock, gens>>
    /\ UNCHANGED maskFrame

\* Ok(MaskResult { path, width, height, regions_drawn })
ReturnOk(t) ==
    LET c == calls[t]
    IN  /\ c.pc = "write_all"
        /\ c.offset = Len(c.png_data)
        /\ calls' = [calls EXCEPT ![t].pc = "returned"]
        /\ log' = Append(log,
               [thread |-> t, args |-> c.args,
                result |-> Ok(MaskResult(c.output_path, c.args.width,
                                         c.args.height, c.regions_drawn)),
                file |-> IF c.output_path \in DOMAIN fs.files
                         THEN Some(fs.files[c.output_path]) ELSE None])
        /\ UNCHANGED <<fs, clock, gens>>
        /\ UNCHANGED maskFrame

\* a millisecond passes
Tick ==
    /\ clock < MaxClock
    /\ clock' = clock + 1
    /\ UNCHANGED <<fs, calls, log, gens>>
    /\ UNCHANGED maskFrame

InitFrame ==
    /\ img_w = 0
    /\ img_h = 0
    /\ region = <<>>
    /\ rect = None
    /\ characters = <<>>
    /\ idx = 1
    /\ buffer = <<>>
    /\ regions_drawn = 0
    /\ mask_result = NoResult
    /\ png = <<>>
    /\ raw_data = <<>>
    /\ zlib = <<>>
    /\ sum = NoSum
    /\ pc = "generate_mask"

EmptyDir == [dir |-> FALSE, files |-> <<>>]

\* the directory after an earlier run: test_1.png holds a mask of 2 x 1
UsedDir ==
    [dir |-> TRUE,
     files |-> (test_name(1) :>
                   encode_png(<<0, 0, 255, 0, 0, 255>>, 2, 1))]

\* one thread that calls generate_mask MaxCalls times, one call after
\* the other
InitFiles ==
    /\ InitFrame
    /\ fs \in {EmptyDir, UsedDir}
    /\ calls = [t \in Threads |-> Idle(IF t = 1 THEN MaxCalls ELSE 0)]
    /\ clock = 0
    /\ log = <<>>
    /\ gens = <<>>

\* two threads that call generate_mask once each
InitThreads ==
    /\ InitFrame
    /\ fs = EmptyDir
    /\ calls = [t \in Threads |-> Idle(1)]
    /\ clock = 0
    /\ log = <<>>
    /\ gens = <<>>

NextFiles ==
    \/ \E t \in Threads : Call(t)
    \/ \E t \in Threads : CreateDir(t)
    \/ \E t \in Threads : CreateDirFail(t)
    \/ \E t \in Threads : Compose(t)
    \/ \E t \in Threads : ComposePanic(t)
    \/ \E t \in Threads : CreateFile(t)
    \/ \E t \in Threads : Write(t)
    \/ \E t \in Threads : WriteFail(t)
    \/ \E t \in Threads : ReturnOk(t)
    \/ Tick

SpecFiles == InitFiles /\ [][NextFiles]_vars

SpecThreads == InitThreads /\ [][NextFiles]_vars

----------------------------------------------------------------------------
(* The orchestrator's scene image generations (generate_image_for_scene,
   generate_scene_image_for_turn): for a scene with two characters, one
   mask per character, written by generate_mask as scene_mask_char<i>.png
   into the masks directory of the application, then the request with
   the mask paths handed to the image backend, which reads the files.
   Two generations run as two threads.  The canvas stands in for
   DEFAULT_IMAGE_WIDTH x DEFAULT_IMAGE_HEIGHT = 1152 x 768, with the same
   ratio of 3 : 2. *)

SceneWidth == 6
SceneHeight == 4

\* the scenes have two characters (num_chars after .take(2) / .min(2))
NumChars == 2

\* format!("scene_mask_char{}.png", i)
scene_mask_name(i) == <<"scene_mask_char", i, ".png">>

\* the regions of the two characters: "left", "right" as
\* generate_scene_image_for_turn assigns them, or as the scene names them
SceneRegionInputs == { <<W_left, W_right>>, <<W_right, W_center>> }

Generation(regions) ==
    [pc |-> "mask_loop", regions |-> regions, i |-> 0, paths |-> <<>>,
     uploaded |-> <<>>]

NoGeneration ==
    [pc |-> "absent", regions |-> <<>>, i |-> 0, paths |-> <<>>,
     uploaded |-> <<>>]

\* the arguments of the call for character i (0-based)
SceneMaskArgs(regions, i) ==
    MaskArgs(<<MaskCharacter(regions[i + 1], 0)>>, SceneWidth, SceneHeight,
             Some(scene_mask_name(i)))

\* the result of the last call of generate_mask that thread t ended
LastResult(t) ==
    LET ended == {k \in 1..Len(log) : log[k].thread = t}
        last  == CHOOSE k \in ended : \A m \in ended : m <= k
    IN  log[last].result

\* std::fs::read(file_path)
fs_read(files, path) ==
    IF path \in DOMAIN files THEN Ok(files[path]) ELSE Err("Cannot read")

\* the body of `for (i, ..) in ...take(num_chars)` up to the call
StartMask(t) ==
    /\ gens[t].pc = "mask_loop"
    /\ gens[t].i < NumChars
    /\ calls' = [calls EXCEPT ![t] =
                    [Idle(0) EXCEPT
                        !.pc = "create_dir_all",
                        !.args = SceneMaskArgs(gens[t].regions, gens[t].i)]]
    /\ gens' = [gens EXCEPT ![t].pc = "generate_mask"]
    /\ UNCHANGED <<fs, clock, log>>
    /\ UNCHANGED maskFrame

\* Ok(r) => paths.push(r.path)
PushPath(t) ==
    /\ gens[t].pc = "generate_mask"
    /\ calls[t].pc = "returned"
    /\ LastResult(t).ok
    /\ gens' = [gens EXCEPT
           ![t].pc = "mask_loop",
           ![t].i = @ + 1,
           ![t].paths = Append(@, LastResult(t).value.path)]
    /\ UNCHANGED <<fs, calls, clock, log>>
    /\ UNCHANGED maskFrame

\* Err(e) => return .. "Mask gen failed for .."
MaskFailed(t) ==
    /\ gens[t].pc = "generate_mask"
    /\ calls[t].pc = "returned"
    /\ ~LastResult(t).ok
    /\ gens' = [gens EXCEPT ![t].pc = "failed"]
    /\ UNCHANGED <<fs, calls, clock, log>>
    /\ UNCHANGED maskFrame

\* the request with mask_paths goes to generate_scene_image, which reads
\* the mask files to upload them
HandOver(t) ==
    /\ gens[t].pc = "mask_loop"
    /\ gens[t].i = NumChars
    /\ gens' = [gens EXCEPT
           ![t].pc = "submitted",
           ![t].uploaded = [k \in 1..NumChars |->
                               fs_read(fs.files, gens[t].paths[k])]]
    /\ UNCHANGED <<fs, calls, clock, log>>
    /\ UNCHANGED maskFrame

\* two generations, or one alone, started by the user interface
InitOrch ==
    /\ InitFrame
    /\ fs = EmptyDir
    /\ calls = [t \in Threads |-> Idle(0)]
    /\ clock = 0
    /\ log = <<>>
    /\ \E g2 \in {NoGeneration} \cup {Generation(r) : r \in SceneRegionInputs} :
           gens = <<Generation(<<W_left, W_right>>), g2>>

NextOrch ==
    \/ \E t \in Threads : StartMask(t)
    \/ \E t \in Threads : CreateDir(t)
    \/ \E t \in Threads : CreateDirFail(t)
    \/ \E t \in Threads : Compose(t)
    \/ \E t \in Threads : CreateFile(t)
    \/ \E t \in Threads : Write(t)
    \/ \E t \in Threads : WriteFail(t)
    \/ \E t \in Threads : ReturnOk(t)
    \/ \E t \in Threads : PushPath(t)
    \/ \E t \in Threads : MaskFailed(t)
    \/ \E t \in Threads : HandOver(t)

SpecOrch == InitOrch /\ [][NextOrch]_vars

----------------------------------------------------------------------------
(* Claims about the checksum engines (specification SpecChecksum) *)

\* the reference CRC-32, one bit at a time: the byte is xored into the low
\* bits of the register, which is then divided eight times by the reversed
\* polynomial 0xEDB88320
RefCrcBit(c) ==
    LET shifted == Shr1(c)
    IN  IF c.lo % 2 = 1 THEN Xor32(shifted, U32(60856, 33568)) ELSE shifted

RefCrcByte(c, byte) ==
    LET c0 == Xor32(c, U32(0, byte))
    IN  RefCrcBit(RefCrcBit(RefCrcBit(RefCrcBit(
            RefCrcBit(RefCrcBit(RefCrcBit(RefCrcBit(c0))))))))

\* the register of the reference CRC after bytes lo..hi of data, from c
RECURSIVE RefCrcRange(_, _, _, _)
RefCrcRange(c, data, lo, hi) ==
    IF lo > hi THEN c
    ELSE IF lo = hi THEN RefCrcByte(c, data[lo])
    ELSE LET mid  == (lo + hi) \div 2
             left == RefCrcRange(c, data, lo, mid)
         IN  IF left = left THEN RefCrcRange(left, data, mid + 1, hi) ELSE left

\* the register of the reference CRC after the first n bytes of data
RefCrcRegister(data, n) == RefCrcRange(U32(65535, 65535), Vec(data), 1, n)

RefCrc32(data) == Xor32(RefCrcRegister(data, Len(data)), U32(65535, 65535))

\* C17: crc32 is the reference bit-by-bit CRC-32 (reversed polynomial
\* 0xEDB88320, initial value 0xFFFFFFFF, final inversion): after every byte
\* the register of the loop is the reference register, the returned value is
\* the reference CRC and the value of crc32 on the whole input, every table
\* entry n is n after 8 shift/xor steps, and crc32("IEND") = 0xAE426082.
C17_Crc32IsReferenceCrc ==
    /\ pc = "crc32" => sum.crc = RefCrcRegister(buffer, sum.pos)
    /\ pc = "crc32_done" =>
           /\ sum.crc = RefCrc32(buffer)
           /\ sum.crc = crc32(buffer)
    /\ pc \in {"crc32", "crc32_done"} =>
           \A n \in 0..255 :
               crc_table[n] =
                   RefCrcBit(RefCrcBit(RefCrcBit(RefCrcBit(RefCrcBit(
                       RefCrcBit(RefCrcBit(RefCrcBit(U32(0, n)))))))))
    /\ (pc = "crc32_done" /\ buffer = Bytes_IEND) =>
           sum.crc = U32(44610, 24706)

C17_Witness ==
    /\ pc = "crc32_done"
    /\ buffer = Bytes_IEND
    /\ sum.pos = 4
    /\ sum.crc = U32(44610, 24706)

\* the sum of bytes lo..hi of data
RECURSIVE RangeSum(_, _, _)
RangeSum(data, lo, hi) ==
    IF lo > hi THEN 0
    ELSE IF lo = hi THEN data[lo]
    ELSE LET mid == (lo + hi) \div 2
         IN  RangeSum(data, lo, mid) + RangeSum(data, mid + 1, hi)

\* the sum of the first n bytes of data
ByteSum(data, n) == RangeSum(data, 1, n)

\* the sum of the values a takes after bytes lo..hi, each reduced mod 65521
RECURSIVE SumOfA(_, _, _)
SumOfA(data, lo, hi) ==
    IF lo > hi THEN 0
    ELSE IF lo = hi THEN (1 + ByteSum(data, lo)) % 65521
    ELSE LET mid == (lo + hi) \div 2
         IN  SumOfA(data, lo, mid) + SumOfA(data, mid + 1, hi)

\* C18: adler32 starts with a = 1 and b = 0; after each byte both
\* accumulators are below 65521 (so the next u32 additions stay far below
\* 2^32), a = (1 + sum of the bytes) mod 65521 and b = (sum of the
\* successive values of a) mod 65521; the result is (b << 16) | a, and
\* adler32("Wikipedia") = 0x11E60398.
C18_Adler32Accumulators ==
    /\ (pc = "adler32" /\ sum.pos = 0) => (sum.a = 1 /\ sum.b = 0)
    /\ pc = "adler32" =>
           /\ sum.a < 65521
           /\ sum.b < 65521
           /\ sum.a = (1 + ByteSum(buffer, sum.pos)) % 65521
           /\ sum.b = SumOfA(buffer, 1, sum.pos) % 65521
    /\ pc = "adler32_done" =>
           /\ sum.crc = U32(sum.b, sum.a)
           /\ sum.crc = adler32(buffer)
    /\ (pc = "adler32_done" /\ buffer = Bytes_Wikipedia) =>
           sum.crc = U32(4582, 920)

\* the long input has wrapped a and b around 65521 and the call returned
C18_Witness ==
    /\ pc = "adler32_done"
    /\ buffer = LongRun
    /\ ByteSum(buffer, Len(buffer)) > 65521
    /\ sum.a = (1 + ByteSum(buffer, Len(buffer))) - 65521
    /\ sum.crc = U32(sum.b, sum.a)

C18_WikipediaVector ==
    /\ pc = "adler32_done"
    /\ buffer = Bytes_Wikipedia
    /\ sum.crc = U32(4582, 920)

----------------------------------------------------------------------------
(* Claims about the encoder (specification SpecPng) *)

\* the four bytes of n, most significant first
BigEndian32(n) ==
    <<n \div 16777216, (n \div 65536) % 256, (n \div 256) % 256, n % 256>>

Malformed == [tag |-> <<>>, data |-> <<>>, crc |-> <<>>, size |-> 0 - 1]

\* the chunks of file f from offset pos on, read by their length fields
RECURSIVE ParseChunks(_, _)
ParseChunks(f, pos) ==
    IF pos = Len(f) THEN <<>>
    ELSE IF pos + 12 > Len(f) \/ f[pos + 1] >= 128 THEN <<Malformed>>
    ELSE LET n == ((f[pos + 1] * 256 + f[pos + 2]) * 256 + f[pos + 3]) * 256
                      + f[pos + 4]
         IN  IF pos + 12 + n > Len(f) THEN <<Malformed>>
             ELSE <<[tag  |-> SubSeq(f, pos + 5, pos + 8),
                     data |-> SubSeq(f, pos + 9, pos + 8 + n),
                     crc  |-> SubSeq(f, pos + 9 + n, pos + 12 + n),
                     size |-> n]>>
                      \o ParseChunks(f, pos + 12 + n)

\* the call of write_png_chunk made at each position of encode_png
ChunkWrites ==
    { [at |-> "ihdr", tag |-> TAG_IHDR,
       data |-> BigEndian32(img_w) \o BigEndian32(img_h) \o <<8, 2, 0, 0, 0>>],
      [at |-> "idat", tag |-> TAG_IDAT, data |-> zlib],
      [at |-> "iend", tag |-> TAG_IEND, data |-> <<>>] }

ChunkLayout ==
    \A wr \in ChunkWrites :
        pc = wr.at =>
            LET n     == Len(wr.data)
                added == SubSeq(png', Len(png) + 1, Len(png'))
            IN  /\ SubSeq(png', 1, Len(png)) = png
                /\ Len(added) = 12 + n
                /\ SubSeq(added, 1, 4) = BigEndian32(n)
                /\ SubSeq(added, 5, 8) = wr.tag
                /\ SubSeq(added, 9, 8 + n) = wr.data
                /\ SubSeq(added, 9 + n, 12 + n)
                       = to_be_bytes(crc32(wr.tag \o wr.data))

\* C19: every call of write_png_chunk appends, to the bytes already
\* written, the 4-byte big-endian number of data bytes, the 4-byte tag, the
\* data unchanged and the 4-byte big-endian CRC of tag ++ data: 12 + data
\* length bytes in all.
C19_ChunkLayout == [][ChunkLayout]_vars

\* the data chunk of a 2 x 2 canvas has been written
C19_Witness ==
    /\ pc = "iend"
    /\ img_w = 2
    /\ img_h = 2
    /\ Len(zlib) = 2 + 5 + 14 + 4
    /\ Len(png) = 8 + (12 + 13) + (12 + Len(zlib))
    /\ SubSeq(png, Len(png) - 3, Len(png)) = to_be_bytes(crc32(TAG_IDAT \o zlib))

\* C20: the output of encode_png is the signature 137,80,78,71,13,10,26,10
\* followed by exactly three chunks, IHDR, IDAT and IEND in this order; the
\* IHDR data is 13 bytes: width and height big-endian, then 8, 2, 0, 0, 0;
\* the IEND data is empty.
C20_FileStructure ==
    pc = "encoded" =>
        LET cs == ParseChunks(png, 8)
        IN  /\ png = encode_png(buffer, img_w, img_h)
            /\ SubSeq(png, 1, 8) = <<137, 80, 78, 71, 13, 10, 26, 10>>
            /\ Len(cs) = 3
            /\ cs[1].tag = <<73, 72, 68, 82>>
            /\ cs[2].tag = <<73, 68, 65, 84>>
            /\ cs[3].tag = <<73, 69, 78, 68>>
            /\ cs[1].size = 13
            /\ cs[1].data =
                   BigEndian32(img_w) \o BigEndian32(img_h) \o <<8, 2, 0, 0, 0>>
            /\ cs[3].size = 0
            /\ cs[3].data = <<>>

\* the file of a canvas wider than high
C20_Witness ==
    /\ pc = "encoded"
    /\ img_w = 4
    /\ img_h = 1
    /\ Len(ParseChunks(png, 8)) = 3
    /\ ParseChunks(png, 8)[1].data = <<0, 0, 0, 4, 0, 0, 0, 1, 8, 2, 0, 0, 0>>

----------------------------------------------------------------------------
(* Claims about the container inside the data chunk *)

Encoded == pc = "encoded"

\* the container is complete: `zlib` is passed to write_png_chunk next, or
\* has been written as the data of the data chunk
ContainerBuilt == pc \in {"idat", "iend", "encoded"}

\* the container is the data of the data chunk of the returned file
ContainerInFile == Encoded => ParseChunks(png, 8)[2].data = zlib

BadBlock == [final |-> 0 - 1, len |-> 0 - 1, nlen |-> 0 - 1, at |-> 0 - 1]

\* the stored blocks of container z from offset pos on, up to the four
\* checksum bytes at its end: marker byte, LEN, NLEN and the offset of each
RECURSIVE BlocksFrom(_, _)
BlocksFrom(z, pos) ==
    IF pos >= Len(z) - 4 THEN <<>>
    ELSE IF pos + 5 > Len(z) - 4 THEN <<BadBlock>>
    ELSE LET len == z[pos + 2] + 256 * z[pos + 3]
         IN  IF pos + 5 + len > Len(z) - 4 THEN <<BadBlock>>
             ELSE <<[final |-> z[pos + 1],
                     len   |-> len,
                     nlen  |-> z[pos + 4] + 256 * z[pos + 5],
                     at    |-> pos]>>
                      \o BlocksFrom(z, pos + 5 + len)

Blocks(z) == BlocksFrom(z, 2)

\* the body of block bl of container z
Body(z, bl) == SubSeq(z, bl.at + 6, bl.at + 5 + bl.len)

RECURSIVE Bodies(_, _, _)
Bodies(z, bls, i) ==
    IF i > Len(bls) THEN <<>> ELSE Body(z, bls[i]) \o Bodies(z, bls, i + 1)

CeilDiv(n, d) == (n + d - 1) \div d

\* C13: the scanline stream is split in order into stored blocks of at most
\* 65535 bytes, every block but the last of exactly 65535 bytes; there are
\* ceil(length / 65535) blocks and their bodies, concatenated, are the
\* stream byte for byte.
C13_BlockSplit ==
    ContainerBuilt =>
        LET z   == zlib
            bls == Blocks(z)
        IN  /\ ContainerInFile
            /\ \A i \in 1..Len(bls) : bls[i] # BadBlock /\ bls[i].len <= 65535
            /\ \A i \in 1..(Len(bls) - 1) : bls[i].len = 65535
            /\ Len(bls) = CeilDiv(Len(raw_data), 65535)
            /\ Bodies(z, bls, 1) = raw_data
            /\ raw_data = scanlines(buffer, img_w, img_h)

\* a stream of 65536 bytes in blocks of 65535 bytes and of 1 byte
C13_Witness ==
    /\ pc = "idat"
    /\ img_w = 0
    /\ Len(raw_data) = 65536
    /\ Len(Blocks(zlib)) = 2
    /\ Blocks(zlib)[1].len = 65535
    /\ Blocks(zlib)[2].len = 1


\* the marker byte of block i of bls flags the final block exactly when the
\* block is the last one
FinalFlagOnLastOnly(bls) ==
    \A i \in 1..Len(bls) : bls[i].final = (IF i = Len(bls) THEN 1 ELSE 0)

\* C14: for every width and height, an empty scanline stream included, the
\* container holds at least one stored block, and the marker byte flags the
\* final block on the last block and on no earlier one.
C14_OneFinalBlock ==
    ContainerBuilt =>
        /\ Len(Blocks(zlib)) >= 1
        /\ FinalFlagOnLastOnly(Blocks(zlib))

\* what the encoder does: the final flag is on the last block when there is
\* a block, and there is a block exactly when the height is not zero
FinalBlockUnlessEmpty ==
    ContainerBuilt =>
        /\ FinalFlagOnLastOnly(Blocks(zlib))
        /\ (Len(Blocks(zlib)) = 0) = (img_h = 0)
        /\ img_h = 0 => zlib = <<120, 1, 0, 0, 0, 1>>

\* the k-th slice of at most 65535 bytes of the scanline stream, and the
\* offset in the container of the block that carries it
PayloadSlice(k) ==
    SubSeq(raw_data, (k - 1) * 65535 + 1,
           IF k * 65535 < Len(raw_data) THEN k * 65535 ELSE Len(raw_data))

BlockOffset(k) == 2 + (k - 1) * (5 + 65535)

\* C15: in every stored block the 16-bit little-endian LEN field is the
\* number of body bytes that follow, and the next 16-bit little-endian
\* field is its one's complement: LEN + NLEN = 0xFFFF.
C15_LenAndComplement ==
    ContainerBuilt =>
        LET z == zlib
        IN  /\ ContainerInFile
            /\ \A k \in 1..CeilDiv(Len(raw_data), 65535) :
                   LET at   == BlockOffset(k)
                       body == PayloadSlice(k)
                       len  == z[at + 2] + 256 * z[at + 3]
                       nlen == z[at + 4] + 256 * z[at + 5]
                   IN  /\ len = Len(body)
                       /\ SubSeq(z, at + 6, at + 5 + Len(body)) = body
                       /\ len + nlen = 65535
            /\ \A i \in 1..Len(Blocks(z)) :
                   Blocks(z)[i].len + Blocks(z)[i].nlen = 65535

\* blocks with LEN = 0xFFFF, NLEN = 0 and with LEN = 1, NLEN = 0xFFFE
C15_Witness ==
    /\ pc = "idat"
    /\ img_w = 0
    /\ Len(raw_data) = 65536
    /\ SubSeq(zlib, 3, 7) = <<0, 255, 255, 0, 0>>
    /\ SubSeq(zlib, 65543, 65547) = <<1, 1, 0, 254, 255>>

\* C16: the last four bytes of the container are the big-endian rolling
\* checksum of the whole scanline stream, not of one block and not of the
\* framed bytes, and they come right after the body of the last block.
C16_ChecksumTrailer ==
    ContainerBuilt =>
        LET z   == zlib
            bls == Blocks(z)
            end == IF bls = <<>> THEN 2
                   ELSE bls[Len(bls)].at + 5 + bls[Len(bls)].len
        IN  /\ ContainerInFile
            /\ Len(z) >= 6
            /\ SubSeq(z, Len(z) - 3, Len(z)) = to_be_bytes(adler32(raw_data))
            /\ \A i \in 1..Len(bls) : bls[i] # BadBlock
            /\ end = Len(z) - 4

\* two blocks, and the checksum of the stream is not that of a block
C16_Witness ==
    /\ pc = "idat"
    /\ img_w = 0
    /\ Len(Blocks(zlib)) = 2
    /\ SubSeq(zlib, Len(zlib) - 3, Len(zlib)) = to_be_bytes(adler32(raw_data))
    /\ adler32(raw_data) # adler32(PayloadSlice(2))
    /\ adler32(raw_data) # adler32(PayloadSlice(1))

\* C27: the container starts with the two bytes 0x78, 0x01, a header a
\* standard decoder accepts: the compression method (low nibble of the
\* first byte) is 8, the preset-dictionary bit 0x20 of the second byte is
\* clear and the big-endian value of the two bytes is a multiple of 31; the
\* container is 2 + 5 * (number of blocks) + payload length + 4 bytes long.
C27_ContainerHeader ==
    ContainerBuilt =>
        /\ Len(zlib) >= 2
        /\ SubSeq(zlib, 1, 2) = <<120, 1>>
        /\ zlib[1] % 16 = 8
        /\ (zlib[2] \div 32) % 2 = 0
        /\ (zlib[1] * 256 + zlib[2]) % 31 = 0
        /\ Len(zlib) = 2 + 5 * CeilDiv(Len(raw_data), 65535) + Len(raw_data) + 4
        /\ Len(zlib) = 2 + 5 * Len(Blocks(zlib)) + Len(raw_data) + 4

\* the container of a 2 x 2 canvas: one block of 14 bytes
C27_Witness ==
    /\ pc = "idat"
    /\ img_w = 2
    /\ img_h = 2
    /\ SubSeq(zlib, 1, 2) = <<120, 1>>
    /\ Len(Blocks(zlib)) = 1
    /\ Len(zlib) = 2 + 5 + 14 + 4

----------------------------------------------------------------------------
(* A decoder of the files: chunks, zlib container of stored blocks as an
   inflate reads it (block after block until the block flagged final),
   filter byte of each row *)

Fail == <<0 - 1>>

\* the bodies of the stored blocks of z from offset pos on, up to and
\* including the final block, followed by the offset after it; Fail when
\* the bytes run out, a block is not a stored block or NLEN is not ~LEN
RECURSIVE Inflate(_, _, _)
Inflate(z, pos, out) ==
    IF pos + 5 > Len(z) THEN Fail
    ELSE LET marker == z[pos + 1]
             len    == z[pos + 2] + 256 * z[pos + 3]
             nlen   == z[pos + 4] + 256 * z[pos + 5]
         IN  IF marker \notin {0, 1} \/ len + nlen # 65535
                 \/ pos + 5 + len > Len(z)
             THEN Fail
             ELSE LET data == out \o SubSeq(z, pos + 6, pos + 5 + len)
                  IN  IF marker = 1 THEN <<pos + 5 + len, data>>
                      ELSE Inflate(z, pos + 5 + len, data)

\* the payload of zlib container z
ZlibDecode(z) ==
    IF Len(z) < 6 \/ z[1] # 120 \/ z[2] # 1 THEN Fail
    ELSE LET r == Inflate(z, 2, <<>>)
         IN  IF r = Fail THEN Fail
             ELSE IF r[1] + 4 # Len(z) THEN Fail
             ELSE IF SubSeq(z, r[1] + 1, r[1] + 4) # to_be_bytes(adler32(r[2]))
                  THEN Fail
             ELSE r[2]

\* rows lo..hi of raw without their filter byte
RECURSIVE StripRows(_, _, _, _)
StripRows(raw, row_bytes, lo, hi) ==
    IF lo > hi THEN <<>>
    ELSE IF lo = hi
         THEN SubSeq(raw, lo * (1 + row_bytes) + 2, (lo + 1) * (1 + row_bytes))
    ELSE LET mid  == (lo + hi) \div 2
             left == StripRows(raw, row_bytes, lo, mid)
         IN  IF left = left
             THEN left \o StripRows(raw, row_bytes, mid + 1, hi)
             ELSE left

Unfilter(raw, w, h) ==
    IF raw = Fail \/ Len(raw) # h * (1 + 3 * w) THEN Fail
    ELSE IF \E y \in 0..(h - 1) : raw[y * (1 + 3 * w) + 1] # 0 THEN Fail
    ELSE StripRows(raw, 3 * w, 0, h - 1)

Decode(f, w, h) ==
    LET cs == ParseChunks(f, 8)
    IN  IF Len(f) < 8 \/ SubSeq(f, 1, 8) # <<137, 80, 78, 71, 13, 10, 26, 10>>
        THEN Fail
        ELSE IF Len(cs) # 3 \/ cs[Len(cs)] = Malformed THEN Fail
        ELSE Unfilter(ZlibDecode(cs[2].data), w, h)

\* C12: for every width, height and buffer of width * height * 3 bytes,
\* decoding the file encode_png returns (signature and chunks, the bodies
\* of the stored blocks concatenated, the filter byte of each row removed)
\* gives the buffer back unchanged, for one block and for several blocks.
C12_RoundTrip ==
    Encoded => Decode(png, img_w, img_h) = buffer

\* what the encoder does: the round trip holds for every height but zero,
\* where the container has no block to read
RoundTripUnlessEmpty ==
    Encoded => (Decode(png, img_w, img_h) = buffer) = (img_h # 0)

----------------------------------------------------------------------------
(* Claims about generate_mask and the file system (specifications
   SpecFiles and SpecThreads) *)

\* calls i and j of the log had the same arguments, an explicit file
\* name, and returned Ok
SameCall(i, j) ==
    /\ log[i].args = log[j].args
    /\ log[i].args.filename # None
    /\ log[i].result.ok
    /\ log[j].result.ok

EndsByContract ==
    log' # log =>
        LET e == log'[Len(log')]
        IN  IF e.result.ok
            THEN /\ e.file # None
                 /\ e.result.value.path \in DOMAIN fs'.files
                 /\ e.result.value.width = e.args.width
                 /\ e.result.value.height = e.args.height
            ELSE /\ e.result.value \in
                        {"Failed to create mask output directory",
                         "Failed to write mask PNG"}
                 /\ (e.result.value = "Failed to create mask output directory"
                        => fs' = fs)

NoPanic == \A t \in Threads : calls'[t].pc # "panicked"

\* C22: a call of generate_mask ends with Err only when create_dir_all or
\* the write failed, and a failed create_dir_all leaves the file system as
\* it was; every other call, for every list of characters and every
\* canvas, ends with Ok, the file present at the returned path and the
\* requested width and height in the result.
C22_ErrorsOnlyFromFileSystem == [][EndsByContract /\ NoPanic]_vars

\* what the code ensures: the calls that return end as the contract says;
\* a call whose width * height passes 2^32 does not return
MaskReturnsByContract == [][EndsByContract]_vars

RefusedOnlyOnOverflow ==
    \A t \in Threads :
        calls[t].pc = "panicked" =>
            MulOverflows(calls[t].args.width, calls[t].args.height)

\* the complete encoded image of a call with arguments a
ImageOf(a) ==
    encode_png(generate_mask_buffer(a.characters, a.width, a.height).buffer,
               a.width, a.height)

\* the complete images of the calls, and what the directory held before
CompleteImages ==
    { ImageOf(a) : a \in {b \in MaskCallInputs :
                             ~MulOverflows(b.width, b.height)} }
        \cup { UsedDir.files[n] : n \in DOMAIN UsedDir.files }

\* C23: the output file is written atomically: at every moment a reader
\* of a path in the directory finds no file, the old contents, or a
\* complete encoded image, never an empty or partly written file, also
\* after a write that failed.
C23_AtomicWrite ==
    \A n \in DOMAIN fs.files : fs.files[n] \in CompleteImages

\* what the code ensures: the file is complete when the call returns Ok
CompleteWhenReturned ==
    \A i \in 1..Len(log) :
        log[i].result.ok => log[i].file = Some(ImageOf(log[i].args))

\* a reader finds the first ShortWrite bytes of the image only
PartialFileVisible ==
    \E n \in DOMAIN fs.files :
        /\ Len(fs.files[n]) = ShortWrite
        /\ fs.files[n] = SubSeq(PNG_SIGNATURE \o <<0, 0, 0, 13>>, 1, ShortWrite)

\* both threads have returned Ok from their call
BothReturned ==
    /\ Len(log) = 2
    /\ log[1].result.ok
    /\ log[2].result.ok
    /\ log[1].thread # log[2].thread

PathOf(i) == log[i].result.value.path

\* C24: under every interleaving of two concurrent calls of generate_mask,
\* once both have returned: with distinct paths each file holds the complete
\* output of its own call; with the same path the file holds the complete
\* output of one of the two calls, never a mixture of bytes from both.
C24_LastWriterWins ==
    BothReturned =>
        IF PathOf(1) # PathOf(2)
        THEN /\ fs.files[PathOf(1)] = ImageOf(log[1].args)
             /\ fs.files[PathOf(2)] = ImageOf(log[2].args)
        ELSE fs.files[PathOf(1)] \in {ImageOf(log[1].args), ImageOf(log[2].args)}

\* what the code ensures: calls on distinct paths do not disturb each other
DistinctPathsKeepOwnOutput ==
    (BothReturned /\ PathOf(1) # PathOf(2)) =>
        /\ fs.files[PathOf(1)] = ImageOf(log[1].args)
        /\ fs.files[PathOf(2)] = ImageOf(log[2].args)

\* two calls on distinct paths have returned, one with a region drawn
DistinctPathsReturned ==
    /\ BothReturned
    /\ PathOf(1) # PathOf(2)
    /\ log[1].args.filename = None
    /\ log[2].args.characters # <<>>

\* the file holds the 72 bytes of one call and then the end of the 75
\* bytes of the other
MixedFile ==
    /\ BothReturned
    /\ PathOf(1) = PathOf(2)
    /\ Len(fs.files[PathOf(1)]) = 75
    /\ SubSeq(fs.files[PathOf(1)], 1, 72) = ImageOf(MaskArgs(<<>>, 1, 1, None))

\* call i of the log gave no file name and returned Ok
DefaultNamed(i) == log[i].args.filename = None /\ log[i].result.ok

\* C28: two calls of generate_mask without a file name, into the same
\* directory, never choose the same output path.
C28_DefaultNamesDiffer ==
    \A i \in 1..Len(log) : \A j \in 1..Len(log) :
        (i # j /\ DefaultNamed(i) /\ DefaultNamed(j)) => PathOf(i) # PathOf(j)

\* what the code ensures: the default name is mask_<ms>.png for a
\* millisecond that has been reached, so that calls that read the clock
\* in different milliseconds choose different paths
DefaultNameIsTimestamp ==
    \A i \in 1..Len(log) :
        DefaultNamed(i) => \E ts \in 0..clock : PathOf(i) = mask_name(ts)

\* two calls without a file name chose different paths
DefaultNamesApart ==
    /\ Len(log) = 2
    /\ DefaultNamed(1)
    /\ DefaultNamed(2)
    /\ PathOf(1) = mask_name(0)
    /\ PathOf(2) = mask_name(1)

----------------------------------------------------------------------------
(* Claims about the orchestrator (specification SpecOrch) *)

\* generation t is between its start and its hand-over to the backend
Running(t) == gens[t].pc \in {"mask_loop", "generate_mask"}

\* the mask paths generation t has written to so far
WrittenPaths(t) ==
    { log[k].result.value.path :
          k \in {m \in 1..Len(log) : log[m].thread = t /\ log[m].result.ok} }
      \cup IF calls[t].pc = "write_all" THEN {calls[t].output_path} ELSE {}

\* what generation t handed over is, for each character, the mask that
\* this generation produced for it
OwnMasksHandedOver(t) ==
    gens[t].pc = "submitted" =>
        \A k \in 1..NumChars :
            gens[t].uploaded[k] =
                Ok(ImageOf(SceneMaskArgs(gens[t].regions, k - 1)))

\* C30: two scene image generations that overlap in time never write the
\* same mask path, and the mask files a generation hands to the image
\* backend hold the masks that this generation produced for its characters.
C30_DistinctMaskFiles ==
    /\ \A t \in Threads : \A u \in Threads :
           (t # u /\ Running(t) /\ Running(u)) =>
               WrittenPaths(t) \cap WrittenPaths(u) = {}
    /\ \A t \in Threads : OwnMasksHandedOver(t)

\* what the code ensures: a generation that runs alone hands over its own
\* masks
OwnMasksWhenAlone ==
    gens[2].pc = "absent" => OwnMasksHandedOver(1)

AloneHandedOver ==
    /\ gens[2].pc = "absent"
    /\ gens[1].pc = "submitted"
    /\ gens[1].regions = <<W_left, W_right>>

\* a generation handed over, for its first character, the complete mask
\* that the other generation produced
ForeignMaskHandedOver ==
    /\ gens[1].pc = "submitted"
    /\ gens[2].pc # "absent"
    /\ gens[1].regions # gens[2].regions
    /\ gens[1].uploaded[1] = Ok(ImageOf(SceneMaskArgs(gens[2].regions, 0)))

\* both generations assigned "left", "right", and one handed over a file
\* that the other had just truncated
EmptyMaskHandedOver ==
    /\ gens[1].pc = "submitted"
    /\ gens[1].regions = <<W_left, W_right>>
    /\ gens[2].regions = <<W_left, W_right>>
    /\ gens[1].uploaded[1] = Ok(<<>>)

====
